---- MODULE Spec2Model ----
(***************************************************************************)
(* Asymmetric LP: the single-sided concentrated-liquidity AMM simulator,   *)
(* the rebalance trigger and the inventory models, as state machines.      *)
(*                                                                         *)
(* Numbers.  The program computes in floating point; the model computes in *)
(* exact rational arithmetic.  A rational is a pair <<n, d>> in lowest     *)
(* terms with d > 0.  Prices are drawn from perfect squares, so that every *)
(* square root the band math takes is again a rational.                    *)
(***************************************************************************)
EXTENDS Integers, Sequences, FiniteSets, TLC

\* ------------------------------------------------------------ rationals

Abs(i) == IF i < 0 THEN -i ELSE i

RECURSIVE GCD(_, _)
GCD(a, b) == IF b = 0 THEN a ELSE GCD(b, a % b)

\* the element of a one-element set: The({e(x) : x \in {a}}) evaluates a once
The(S) == CHOOSE x \in S : TRUE

\* the pair p in lowest terms, denominator positive
Norm(p) ==
    LET s == IF p[2] < 0 THEN -1 ELSE 1
        g == GCD(Abs(p[1]), Abs(p[2]))
    IN  IF p[1] = 0 THEN <<0, 1>> ELSE <<(s * p[1]) \div g, (s * p[2]) \div g>>

\* n/d in lowest terms, denominator positive
Q(n, d) == The({Norm(p) : p \in {<<n, d>>}})

Zero == <<0, 1>>
One  == <<1, 1>>
N(i) == <<i, 1>>

RAdd(a, b) == The({Norm(<<x[1] * y[2] + y[1] * x[2], x[2] * y[2]>>) : x \in {a}, y \in {b}})
RNeg(a)    == The({<<-x[1], x[2]>> : x \in {a}})
RSub(a, b) == RAdd(a, RNeg(b))
RMul(a, b) == The({Norm(<<x[1] * y[1], x[2] * y[2]>>) : x \in {a}, y \in {b}})
RInv(a)    == The({Norm(<<x[2], x[1]>>) : x \in {a}})
RDiv(a, b) == RMul(a, RInv(b))
RLt(a, b)  == \E x \in {a}, y \in {b} : x[1] * y[2] < y[1] * x[2]
RLe(a, b)  == \E x \in {a}, y \in {b} : x[1] * y[2] <= y[1] * x[2]
RGt(a, b)  == RLt(b, a)
RGe(a, b)  == RLe(b, a)
RMin(a, b) == The({IF RLe(x, y) THEN x ELSE y : x \in {a}, y \in {b}})
RMax(a, b) == The({IF RGe(x, y) THEN x ELSE y : x \in {a}, y \in {b}})
RAbs(a)    == The({<<Abs(x[1]), x[2]>> : x \in {a}})

\* integer square root of a perfect square
ISqrt(n) == CHOOSE r \in 0..n : r * r = n
\* math.sqrt on a rational that is the square of a rational
RSqrt(a) == The({<<ISqrt(x[1]), ISqrt(x[2])>> : x \in {a}})

\* Python's None, for an optional number and for an optional band
None   == <<>>
NoBand == [none |-> TRUE]

\* ------------------------------------------------------------ RangeBand
\* amm.py Record(): the per-step report a settle fills in

Record ==
    [balance_token1 |-> Zero, balance_token0 |-> Zero,
     sold_token0 |-> Zero, bought_token0 |-> Zero,
     sold_token1 |-> Zero, bought_token1 |-> Zero,
     fees_token0 |-> Zero, fees_token1 |-> Zero,
     range_lower |-> Zero, range_upper |-> Zero]

\* UniswapV3SingleSidedRange.__init__
SingleSidedRange(fee_tier) ==
    [fee_tier |-> fee_tier,
     balance_token1 |-> Zero, balance_token0 |-> Zero,
     sold_token0 |-> Zero, bought_token0 |-> Zero,
     sold_token1 |-> Zero, bought_token1 |-> Zero,
     fees_token0 |-> Zero, fees_token1 |-> Zero,
     liquidity |-> Zero,
     range_lower |-> Zero, range_upper |-> Zero,
     last_spot_price |-> Zero]

\* variant: liquidity and cap taken from the prices instead of their square roots
compute_token0_liquidity_no_sqrt(self) ==
    IF RLe(self.balance_token0, Zero) THEN self
    ELSE LET pL == self.range_lower
             pU == self.range_upper
         IN  IF RLe(pU, pL) THEN self
             ELSE LET L         == RDiv(RMul(RMul(self.balance_token0, pL), pU), RSub(pU, pL))
                      denom_cap == RSub(RInv(pL), RInv(pU))
                      Lcapped   == IF RGt(denom_cap, Zero)
                                   THEN RMin(L, RDiv(self.balance_token0, denom_cap))
                                   ELSE L
                  IN  [self EXCEPT !.liquidity = Lcapped]

\* L from a token0-only deposit, capped by the full-band token0 output
compute_token0_liquidity(self) ==
    IF RLe(self.balance_token0, Zero) THEN self
    ELSE LET sL == RSqrt(self.range_lower)
             sU == RSqrt(self.range_upper)
         IN  IF RLe(sU, sL) THEN self
             ELSE LET numerator   == RMul(RMul(self.balance_token0, sL), sU)
                      denominator == RSub(sU, sL)
                      L           == RDiv(numerator, denominator)
                      denom_cap   == RSub(RInv(sL), RInv(sU))
                      Lcapped     == IF RGt(denom_cap, Zero)
                                     THEN RMin(L, RDiv(self.balance_token0, denom_cap))
                                     ELSE L
                  IN  [self EXCEPT !.liquidity = Lcapped]

\* L from a token1-only deposit, capped by the full-band token1 output
compute_token1_liquidity(self) ==
    IF RLe(self.balance_token1, Zero) THEN self
    ELSE LET sU == RSqrt(self.range_upper)
             sL == RSqrt(self.range_lower)
         IN  IF RLe(sU, sL) THEN self
             ELSE LET delta_price == RSub(sU, sL)
                      L           == RDiv(self.balance_token1, delta_price)
                      denom_cap   == RSub(sU, sL)
                      Lcapped     == IF RGt(denom_cap, Zero)
                                     THEN RMin(L, RDiv(self.balance_token1, denom_cap))
                                     ELSE L
                  IN  [self EXCEPT !.liquidity = Lcapped]

\* UniswapV3SingleSidedRange.compute
compute_liquidity(self) == compute_token1_liquidity(compute_token0_liquidity(self))

\* variant: the lower band's reference price starts at its lower edge
RangeToken1_at_lower_edge(fee_tier, range_lower, range_upper, amount) ==
    compute_liquidity([SingleSidedRange(fee_tier) EXCEPT
        !.balance_token1 = amount,
        !.range_lower = range_lower,
        !.range_upper = range_upper,
        !.last_spot_price = range_lower])

\* UniswapV3RangeToken1.__init__: the lower (token1) band, seeded at its upper edge
RangeToken1(fee_tier, range_lower, range_upper, amount) ==
    compute_liquidity([SingleSidedRange(fee_tier) EXCEPT
        !.balance_token1 = amount,
        !.range_lower = range_lower,
        !.range_upper = range_upper,
        !.last_spot_price = range_upper])

\* UniswapV3RangeToken0.__init__: the upper (token0) band, seeded at its lower edge
RangeToken0(fee_tier, range_lower, range_upper, amount) ==
    compute_liquidity([SingleSidedRange(fee_tier) EXCEPT
        !.balance_token0 = amount,
        !.range_lower = range_lower,
        !.range_upper = range_upper,
        !.last_spot_price = range_lower])

\* token0 sold over a sweep between lower and current_price
token0_sold(current_price, lower, liquidity) ==
    LET numerator   == RSub(RSqrt(current_price), RSqrt(lower))
        denominator == RMul(RSqrt(current_price), RSqrt(lower))
    IN  RDiv(RMul(numerator, liquidity), denominator)

\* token1 sold over a sweep between current_price and upper
token1_sold(current_price, upper, liquidity) ==
    RMul(RSub(RSqrt(upper), RSqrt(current_price)), liquidity)

\* min(max(p, lower), upper)
Clip(p, lower, upper) == RMin(RMax(p, lower), upper)

\* a fill between two prices at the band's liquidity, sold amount held to the
\* balance or not
fill_between(self, s0_price, s1_price, price, capped) ==
    LET s0 == RSqrt(s0_price)
        s1 == RSqrt(s1_price)
        delta_token0 == RMul(self.liquidity, RSub(RInv(s1), RInv(s0)))
        delta_token1 == RMul(self.liquidity, RSub(s1, s0))
        reset == [self EXCEPT
                    !.sold_token0 = Zero, !.bought_token0 = Zero,
                    !.sold_token1 = Zero, !.bought_token1 = Zero,
                    !.fees_token0 = Zero, !.fees_token1 = Zero]
    IN  IF RGt(delta_token1, Zero) /\ RLt(delta_token0, Zero)
        THEN LET sell0 == IF capped THEN RMin(RNeg(delta_token0), self.balance_token0)
                          ELSE RNeg(delta_token0)
                 buy1  == RMul(delta_token1, RDiv(sell0, RNeg(delta_token0)))
             IN  [reset EXCEPT
                    !.sold_token0 = sell0,
                    !.bought_token1 = buy1,
                    !.fees_token0 = RMul(sell0, self.fee_tier),
                    !.last_spot_price = price]
        ELSE IF RLt(delta_token1, Zero) /\ RGt(delta_token0, Zero)
        THEN LET sell1 == IF capped THEN RMin(RNeg(delta_token1), self.balance_token1)
                          ELSE RNeg(delta_token1)
                 buy0  == RMul(delta_token0, RDiv(sell1, RNeg(delta_token1)))
             IN  [reset EXCEPT
                    !.sold_token1 = sell1,
                    !.bought_token0 = buy0,
                    !.fees_token1 = RMul(sell1, self.fee_tier),
                    !.last_spot_price = price]
        ELSE [reset EXCEPT !.last_spot_price = price]

\* variant: the deltas between the two prices as they are, neither clipped
\* into the band nor held to its balance
swap_unclipped_uncapped(self, price) ==
    IF self.last_spot_price = Zero \/ self.last_spot_price = price
    THEN [self EXCEPT !.last_spot_price = price]
    ELSE fill_between(self, self.last_spot_price, price, price, FALSE)

\* variant: a step that stays outside the band leaves the band as it is,
\* its reference price included
swap_keeping_reference(self, price) ==
    IF RLe(self.range_lower, Zero) \/ RLe(self.range_upper, Zero) \/ self.last_spot_price = Zero
    THEN [self EXCEPT !.last_spot_price = price]
    ELSE IF Clip(self.last_spot_price, self.range_lower, self.range_upper)
              = Clip(price, self.range_lower, self.range_upper)
    THEN self
    ELSE fill_between(self, Clip(self.last_spot_price, self.range_lower, self.range_upper),
                      Clip(price, self.range_lower, self.range_upper), price, TRUE)

\* UniswapV3SingleSidedRange.swap: one price step; balances move in settle
swap(self, price) ==
    IF RLe(self.range_lower, Zero) \/ RLe(self.range_upper, Zero)
    THEN [self EXCEPT !.last_spot_price = price]
    ELSE IF self.last_spot_price = Zero
    THEN [self EXCEPT !.last_spot_price = price]
    ELSE
    LET s0_price == Clip(self.last_spot_price, self.range_lower, self.range_upper)
        s1_price == Clip(price, self.range_lower, self.range_upper)
    IN  IF s0_price = s1_price
        THEN [self EXCEPT !.last_spot_price = price]
        ELSE
        LET s0 == RSqrt(s0_price)
            s1 == RSqrt(s1_price)
            delta_token0 == RMul(self.liquidity, RSub(RInv(s1), RInv(s0)))
            delta_token1 == RMul(self.liquidity, RSub(s1, s0))
            reset == [self EXCEPT
                        !.sold_token0 = Zero, !.bought_token0 = Zero,
                        !.sold_token1 = Zero, !.bought_token1 = Zero,
                        !.fees_token0 = Zero, !.fees_token1 = Zero]
        IN  IF RGt(delta_token1, Zero) /\ RLt(delta_token0, Zero)
            THEN LET sell0 == RMin(RNeg(delta_token0), self.balance_token0)
                     ratio == IF RNeg(delta_token0) = Zero THEN Zero
                              ELSE RDiv(sell0, RNeg(delta_token0))
                     buy1  == RMul(delta_token1, ratio)
                 IN  [reset EXCEPT
                        !.sold_token0 = sell0,
                        !.bought_token1 = buy1,
                        !.fees_token0 = RMul(sell0, self.fee_tier),
                        !.last_spot_price = price]
            ELSE IF RLt(delta_token1, Zero) /\ RGt(delta_token0, Zero)
            THEN LET sell1 == RMin(RNeg(delta_token1), self.balance_token1)
                     ratio == IF RNeg(delta_token1) = Zero THEN Zero
                              ELSE RDiv(sell1, RNeg(delta_token1))
                     buy0  == RMul(delta_token0, ratio)
                 IN  [reset EXCEPT
                        !.sold_token1 = sell1,
                        !.bought_token0 = buy0,
                        !.fees_token1 = RMul(sell1, self.fee_tier),
                        !.last_spot_price = price]
            ELSE [reset EXCEPT !.last_spot_price = price]

\* variant: the fee accumulators survive the settle
settle_keeping_fees(self) ==
    [self EXCEPT
        !.balance_token0 = RAdd(self.balance_token0,
                              RAdd(RAdd(RNeg(self.sold_token0), self.bought_token0),
                                   self.fees_token0)),
        !.balance_token1 = RAdd(self.balance_token1,
                              RAdd(RAdd(RNeg(self.sold_token1), self.bought_token1),
                                   self.fees_token1)),
        !.sold_token0 = Zero, !.bought_token0 = Zero,
        !.sold_token1 = Zero, !.bought_token1 = Zero]

\* variant: fees tracked apart, not credited to the band's balance
settle_without_fee(self) ==
    [self EXCEPT
        !.balance_token0 = RAdd(self.balance_token0,
                              RAdd(RNeg(self.sold_token0), self.bought_token0)),
        !.balance_token1 = RAdd(self.balance_token1,
                              RAdd(RNeg(self.sold_token1), self.bought_token1)),
        !.sold_token0 = Zero, !.bought_token0 = Zero,
        !.sold_token1 = Zero, !.bought_token1 = Zero,
        !.fees_token0 = Zero, !.fees_token1 = Zero]

\* variant: liquidity recomputed from the drifted balances at every settle
settle_recomputing_liquidity(self) ==
    compute_liquidity(
        [self EXCEPT
            !.balance_token0 = RAdd(self.balance_token0,
                                  RAdd(RAdd(RNeg(self.sold_token0), self.bought_token0),
                                       self.fees_token0)),
            !.balance_token1 = RAdd(self.balance_token1,
                                  RAdd(RAdd(RNeg(self.sold_token1), self.bought_token1),
                                       self.fees_token1)),
            !.sold_token0 = Zero, !.bought_token0 = Zero,
            !.sold_token1 = Zero, !.bought_token1 = Zero,
            !.fees_token0 = Zero, !.fees_token1 = Zero])

\* the band after settle: deltas applied, accumulators reset, L untouched
settle(self) ==
    [self EXCEPT
        !.balance_token0 = RAdd(self.balance_token0,
                              RAdd(RAdd(RNeg(self.sold_token0), self.bought_token0),
                                   self.fees_token0)),
        !.balance_token1 = RAdd(self.balance_token1,
                              RAdd(RAdd(RNeg(self.sold_token1), self.bought_token1),
                                   self.fees_token1)),
        !.sold_token0 = Zero, !.bought_token0 = Zero,
        !.sold_token1 = Zero, !.bought_token1 = Zero,
        !.fees_token0 = Zero, !.fees_token1 = Zero]

\* the record settle(record) fills in: updated balances, this step's deltas
settle_record(self) ==
    [balance_token1 |-> settle(self).balance_token1,
     balance_token0 |-> settle(self).balance_token0,
     sold_token0 |-> self.sold_token0, bought_token0 |-> self.bought_token0,
     sold_token1 |-> self.sold_token1, bought_token1 |-> self.bought_token1,
     fees_token0 |-> self.fees_token0, fees_token1 |-> self.fees_token1,
     range_lower |-> self.range_lower, range_upper |-> self.range_upper]

\* ------------------------------------------------------------ Pool

\* UniswapV3Pool.__init__: no band on either side
UniswapV3Pool == [token1_range |-> NoBand, token0_range |-> NoBand]

clear_quote_token1(pool) == [pool EXCEPT !.token1_range = NoBand]
clear_quote_token0(pool) == [pool EXCEPT !.token0_range = NoBand]

\* the token1 (quote) band over [price_lower, current_price]
quote_token1(pool, fee, amount, current_price, price_lower) ==
    [pool EXCEPT !.token1_range = RangeToken1(fee, price_lower, current_price, amount)]

\* the token0 (base) band over [current_price, price_upper]
quote_token0(pool, fee, amount, current_price, price_upper) ==
    [pool EXCEPT !.token0_range = RangeToken0(fee, current_price, price_upper, amount)]

\* UniswapV3Pool.swap: each band that exists swaps, then settles into its record
pool_swap(pool, price) ==
    The({[pool |-> [token0_range |-> IF b0 # NoBand THEN settle(b0) ELSE NoBand,
                    token1_range |-> IF b1 # NoBand THEN settle(b1) ELSE NoBand],
          token0_record |-> IF b0 # NoBand THEN settle_record(b0) ELSE Record,
          token1_record |-> IF b1 # NoBand THEN settle_record(b1) ELSE Record] :
         b0 \in {IF pool.token0_range # NoBand THEN swap(pool.token0_range, price) ELSE NoBand},
         b1 \in {IF pool.token1_range # NoBand THEN swap(pool.token1_range, price) ELSE NoBand}})

\* ------------------------------------------------------------ AMMSimulator

NoEvent == [none |-> TRUE]

\* fee_tier_bps / 10000.0
fee_tier_percent(fee_tier_bps) == Q(fee_tier_bps, 10000)

\* AMMSimulator.__init__
AMMSimulator(fee_tier_bps, trade_detection_threshold) ==
    [fee_tier_bps |-> fee_tier_bps,
     fee_tier_percent |-> fee_tier_percent(fee_tier_bps),
     trade_detection_threshold |-> trade_detection_threshold,
     pool |-> UniswapV3Pool,
     last_price |-> None]

has_active_positions(self) ==
    self.pool.token0_range # NoBand \/ self.pool.token1_range # NoBand

\* variant: each band counted for the token it was funded with only
get_active_positions_balances_funded_token(self) ==
    <<IF self.pool.token0_range # NoBand THEN self.pool.token0_range.balance_token0 ELSE Zero,
      IF self.pool.token1_range # NoBand THEN self.pool.token1_range.balance_token1 ELSE Zero>>

\* sum of the balances of the bands that exist: <<token0, token1>>
get_active_positions_balances(self) ==
    LET r0 == self.pool.token0_range
        r1 == self.pool.token1_range
        z  == [balance_token0 |-> Zero, balance_token1 |-> Zero]
        a  == IF r0 # NoBand THEN r0 ELSE z
        b  == IF r1 # NoBand THEN r1 ELSE z
    IN  <<RAdd(a.balance_token0, b.balance_token0),
          RAdd(a.balance_token1, b.balance_token1)>>

clear_all_positions(self) ==
    [self EXCEPT !.pool = clear_quote_token1(clear_quote_token0(self.pool))]

\* price_change_pct > trade_detection_threshold
significant_move(price_change_pct, threshold) == RGt(price_change_pct, threshold)

\* variant: the remembered price follows every bar, filled or not
no_fill_advancing(self, close_price) ==
    [self |-> [self EXCEPT !.last_price = close_price], ret |-> NoEvent,
     token0_record |-> Record, token1_record |-> Record]

\* compute's last line: nothing happened this bar, the remembered price stays
no_fill(self, close_price) ==
    [self |-> self, ret |-> NoEvent, token0_record |-> Record, token1_record |-> Record]

\* compute's two early returns: just remember the close
remember_close(self, close_price) ==
    [self |-> [self EXCEPT !.last_price = close_price], ret |-> NoEvent,
     token0_record |-> Record, token1_record |-> Record]

\* AMMSimulator.compute on one bar [timestamp, close]: the simulator after
\* the call, the value returned (a SwapEvent, or NoEvent for None) and the
\* two records the pool filled in
compute(self, ohlc_row) ==
    LET timestamp   == ohlc_row.timestamp
        close_price == ohlc_row.close
    IN  IF self.last_price = None
        THEN remember_close(self, close_price)
        ELSE IF ~has_active_positions(self)
        THEN remember_close(self, close_price)
        ELSE
        LET price_change_pct ==
                RDiv(RAbs(RSub(close_price, self.last_price)), self.last_price)
        IN  IF significant_move(price_change_pct, self.trade_detection_threshold)
            THEN
            The({
            LET token0_record == sw.token0_record
                token1_record == sw.token1_record
                trade_type == IF RGt(close_price, self.last_price) THEN "buy" ELSE "sell"
                sold_token0 == RAdd(token0_record.sold_token0, token1_record.sold_token0)
                sold_token1 == RAdd(token0_record.sold_token1, token1_record.sold_token1)
            IN  [self |-> [self EXCEPT !.pool = sw.pool, !.last_price = close_price],
                 ret  |-> [timestamp |-> timestamp,
                           price |-> close_price,
                           trade_type |-> trade_type,
                           liquidity_size |-> IF trade_type = "buy" THEN sold_token0
                                              ELSE sold_token1,
                           liquidity_share |-> price_change_pct,
                           fees_token0 |-> RAdd(token0_record.fees_token0,
                                                token1_record.fees_token0),
                           fees_token1 |-> RAdd(token0_record.fees_token1,
                                                token1_record.fees_token1),
                           volume_usd |-> IF trade_type = "buy" THEN sold_token0
                                          ELSE RMul(sold_token1, RInv(close_price)),
                           new_token0_balance |-> RAdd(token0_record.balance_token0,
                                                       token1_record.balance_token0),
                           new_token1_balance |-> RAdd(token0_record.balance_token1,
                                                       token1_record.balance_token1)],
                 token0_record |-> token0_record,
                 token1_record |-> token1_record]
            : sw \in {pool_swap(self.pool, close_price)}})
            ELSE no_fill(self, close_price)

\* variant: a mint that does not clear the bands already in the pool
mint_position_keeping(self, token0_amount, token1_amount, tick_lower, tick_upper, current_price) ==
    LET p0 == IF token0_amount # Zero /\ RGt(token0_amount, Zero)
              THEN quote_token0(self.pool, self.fee_tier_percent, token0_amount,
                                current_price, tick_upper)
              ELSE self.pool
        p1 == IF token1_amount # Zero /\ RGt(token1_amount, Zero)
              THEN quote_token1(p0, self.fee_tier_percent, token1_amount,
                                current_price, tick_lower)
              ELSE p0
        L0 == IF p1.token0_range # NoBand THEN p1.token0_range.liquidity ELSE Zero
        L1 == IF p1.token1_range # NoBand THEN p1.token1_range.liquidity ELSE Zero
    IN  [self |-> [self EXCEPT !.pool = p1],
         ret  |-> <<RAdd(L0, L1), token0_amount, token1_amount>>]

\* AMMSimulator.mint_position: old bands cleared, one band per funded side
mint_position(self, token0_amount, token1_amount, tick_lower, tick_upper, current_price) ==
    LET cleared == clear_quote_token1(clear_quote_token0(self.pool))
        p0 == IF token0_amount # Zero /\ RGt(token0_amount, Zero)
              THEN quote_token0(cleared, self.fee_tier_percent, token0_amount,
                                current_price, tick_upper)
              ELSE cleared
        p1 == IF token1_amount # Zero /\ RGt(token1_amount, Zero)
              THEN quote_token1(p0, self.fee_tier_percent, token1_amount,
                                current_price, tick_lower)
              ELSE p0
        L0 == IF p1.token0_range # NoBand THEN p1.token0_range.liquidity ELSE Zero
        L1 == IF p1.token1_range # NoBand THEN p1.token1_range.liquidity ELSE Zero
    IN  [self |-> [self EXCEPT !.pool = p1],
         ret  |-> <<RAdd(L0, L1), token0_amount, token1_amount>>]

\* ------------------------------------------------------------ rebalance trigger

\* strategy: init = max(initial, 1e-18); cur = max(current, 0.0);
\* (init - cur) / init if cur < init else 0.0.  Under the floor 1e-18 only a
\* zero balance is below the baseline.
deviation(initial, current) ==
    LET cur == RMax(current, Zero)
    IN  IF RGt(initial, Zero)
        THEN IF RLt(cur, initial) THEN RDiv(RSub(initial, cur), initial) ELSE Zero
        ELSE IF cur = Zero THEN One ELSE Zero

\* variant: a deviation equal to the threshold already triggers
exceeds_or_equals(dev, REBALANCE_THRESHOLD) == RGe(dev, REBALANCE_THRESHOLD)

\* dev > self.config.REBALANCE_THRESHOLD
exceeds(dev, REBALANCE_THRESHOLD) == RGt(dev, REBALANCE_THRESHOLD)

\* the deviation of one token against its baseline; a baseline of None
\* (nothing to be depleted from) contributes no deviation
baseline_deviation(last_rebalance_token, current_token) ==
    IF last_rebalance_token = None THEN Zero
    ELSE deviation(last_rebalance_token, current_token)

\* variant: the depletion check applied whether or not positions exist
strategy_should_rebalance_without_bootstrap(current_token0, current_token1, last_rebalance_token0, last_rebalance_token1, has_positions, REBALANCE_THRESHOLD) ==
    \/ exceeds(baseline_deviation(last_rebalance_token0, current_token0), REBALANCE_THRESHOLD)
    \/ exceeds(baseline_deviation(last_rebalance_token1, current_token1), REBALANCE_THRESHOLD)

\* AsymmetricLPStrategy.should_rebalance as the engine and the tests call it:
\* always due without positions, else due when either token is depleted
\* against its baseline by more than the threshold
strategy_should_rebalance(current_token0, current_token1, last_rebalance_token0, last_rebalance_token1, has_positions, REBALANCE_THRESHOLD) ==
    IF ~has_positions THEN TRUE
    ELSE \/ exceeds(baseline_deviation(last_rebalance_token0, current_token0), REBALANCE_THRESHOLD)
         \/ exceeds(baseline_deviation(last_rebalance_token1, current_token1), REBALANCE_THRESHOLD)

\* x if x > 0.0 else None
positive_or_None(x) == IF RGt(x, Zero) THEN x ELSE None

\* BacktestEngine.should_rebalance: the engine's mirror and baselines handed
\* to the strategy; self needs balance_0, balance_1, last_rebalance_token0,
\* last_rebalance_token1, positions (a sequence) and config.REBALANCE_THRESHOLD
engine_should_rebalance(self) ==
    strategy_should_rebalance(self.balance_0, self.balance_1,
                              positive_or_None(self.last_rebalance_token0),
                              positive_or_None(self.last_rebalance_token1),
                              Len(self.positions) > 0,
                              self.REBALANCE_THRESHOLD)

\* ------------------------------------------------------------ inventory models

\* Config: the range limits (percent), the model parameters at their defaults
Config(MIN_RANGE_PERCENTAGE, MAX_RANGE_PERCENTAGE, BASE_SPREAD, INVENTORY_CONSTRAINT_ACTIVE) ==
    [MIN_RANGE_PERCENTAGE |-> MIN_RANGE_PERCENTAGE,
     MAX_RANGE_PERCENTAGE |-> MAX_RANGE_PERCENTAGE,
     BASE_SPREAD |-> BASE_SPREAD,
     INVENTORY_RISK_AVERSION |-> Q(1, 10),
     TARGET_INVENTORY_RATIO |-> Q(1, 2),
     EXECUTION_COST |-> Q(1, 1000),
     INVENTORY_PENALTY |-> Q(1, 20),
     MAX_POSITION_SIZE |-> Q(1, 10),
     TERMINAL_INVENTORY_PENALTY |-> Q(1, 5),
     INVENTORY_CONSTRAINT_ACTIVE |-> INVENTORY_CONSTRAINT_ACTIVE]

\* BaseInventoryModel.validate_inputs (price_history is always a list)
validate_inputs(token0_balance, token1_balance, spot_price) ==
    IF RLt(token0_balance, Zero) \/ RLt(token1_balance, Zero) THEN FALSE
    ELSE IF RLe(spot_price, Zero) THEN FALSE
    ELSE TRUE

\* BaseInventoryModel.calculate_inventory_ratio; balances in whole tokens
\* (the client reports 0 decimals)
calculate_inventory_ratio(token0_balance, token1_balance, spot_price) ==
    The({IF total_value = Zero THEN Q(1, 2)
         ELSE RDiv(RMul(token0_balance, spot_price), total_value) :
         total_value \in {RAdd(RMul(token0_balance, spot_price), token1_balance)}})

\* what calculate_lp_ranges returns: the two widths in percent
Ranges(range_a_percentage, range_b_percentage, fallback_used) ==
    [range_a_percentage |-> range_a_percentage,
     range_b_percentage |-> range_b_percentage,
     fallback_used |-> fallback_used]

\* SimpleModel.__init__: its own fixed parameters
base_range == Q(5, 100)
max_range == Q(20, 100)
min_range == Q(2, 100)
inventory_sensitivity == N(2)

\* SimpleModel.calculate_lp_ranges
SimpleModel_calculate_lp_ranges(config, token0_balance, token1_balance, spot_price, volatility) ==
    IF ~validate_inputs(token0_balance, token1_balance, spot_price)
    THEN Ranges(RMul(min_range, N(100)), RMul(min_range, N(100)), TRUE)
    ELSE The({
        LET target_ratio == Q(1, 2)
            k == RMul(RAbs(RSub(current_ratio, target_ratio)), inventory_sensitivity)
            range_a == IF RGt(current_ratio, target_ratio)
                       THEN RMul(base_range, RSub(One, k))
                       ELSE RMul(base_range, RAdd(One, k))
            range_b == IF RGt(current_ratio, target_ratio)
                       THEN RMul(base_range, RAdd(One, k))
                       ELSE RMul(base_range, RSub(One, k))
        IN  Ranges(RMul(RMax(min_range, RMin(range_a, max_range)), N(100)),
                   RMul(RMax(min_range, RMin(range_b, max_range)), N(100)), FALSE)
        : current_ratio \in {calculate_inventory_ratio(token0_balance, token1_balance, spot_price)}})

\* max(range, MIN_RANGE_PERCENTAGE / 100.0), then min(range, MAX_RANGE_PERCENTAGE / 100.0)
apply_min_max(config, range) ==
    RMin(RMax(range, RDiv(config.MIN_RANGE_PERCENTAGE, N(100))),
         RDiv(config.MAX_RANGE_PERCENTAGE, N(100)))

\* AvellanedaStoikovModel._calculate_as_ranges: <<range_a, range_b>>
calculate_as_ranges(config, current_ratio, volatility) ==
    The({The({IF RGt(inventory_skew, Zero)
              THEN <<RMul(total_spread, Q(1, 2)), RMul(total_spread, N(2))>>
              ELSE <<RMul(total_spread, N(2)), RMul(total_spread, Q(1, 2))>> :
              total_spread \in {RAdd(config.BASE_SPREAD,
                                    RMul(RMul(config.INVENTORY_RISK_AVERSION,
                                              RMul(volatility, volatility)),
                                         RAbs(inventory_skew)))}}) :
         inventory_skew \in {RSub(current_ratio, config.TARGET_INVENTORY_RATIO)}})

\* AvellanedaStoikovModel.calculate_lp_ranges
AvellanedaStoikovModel_calculate_lp_ranges(config, token0_balance, token1_balance, spot_price, volatility) ==
    IF ~validate_inputs(token0_balance, token1_balance, spot_price)
    THEN Ranges(config.MIN_RANGE_PERCENTAGE, config.MIN_RANGE_PERCENTAGE, TRUE)
    ELSE The({Ranges(RMul(apply_min_max(config, r[1]), N(100)),
                     RMul(apply_min_max(config, r[2]), N(100)), FALSE) :
              r \in {calculate_as_ranges(config,
                        calculate_inventory_ratio(token0_balance, token1_balance, spot_price),
                        volatility)}})

\* GLFTModel._apply_finite_inventory_constraint
apply_finite_inventory_constraint(config, range_size, inventory_level) ==
    The({IF RLt(distance_from_limit, config.MAX_POSITION_SIZE)
         THEN RMul(range_size, RDiv(distance_from_limit, config.MAX_POSITION_SIZE))
         ELSE range_size :
         distance_from_limit \in {RMin(inventory_level, RSub(One, inventory_level))}})

\* GLFTModel._calculate_glft_ranges: <<range_a, range_b>>
calculate_glft_ranges(config, normalized_inventory_0, normalized_inventory_1, volatility) ==
    The({The({The({<<apply_finite_inventory_constraint(config, r[1], normalized_inventory_0),
                     apply_finite_inventory_constraint(config, r[2], normalized_inventory_1)>> :
                   r \in {IF RGt(inventory_skew, Zero)
                          THEN <<RMul(RMul(total_spread, Q(1, 2)), RAdd(One, config.EXECUTION_COST)),
                                 RMul(RMul(total_spread, N(2)), RAdd(One, config.EXECUTION_COST))>>
                          ELSE <<RMul(RMul(total_spread, N(2)), RAdd(One, config.EXECUTION_COST)),
                                 RMul(RMul(total_spread, Q(1, 2)), RAdd(One, config.EXECUTION_COST))>>}}) :
              total_spread \in {
                  LET base_spread_component == RAdd(config.BASE_SPREAD, config.EXECUTION_COST)
                      inventory_risk_component ==
                          RAdd(RMul(RMul(config.INVENTORY_RISK_AVERSION,
                                         RMul(volatility, volatility)),
                                    RAbs(inventory_skew)),
                               RMul(config.INVENTORY_PENALTY, RAbs(inventory_skew)))
                      terminal_penalty_component ==
                          RMul(config.TERMINAL_INVENTORY_PENALTY,
                               RMul(inventory_skew, inventory_skew))
                  IN  RAdd(RAdd(base_spread_component, inventory_risk_component),
                           terminal_penalty_component)}}) :
         inventory_skew \in {RSub(normalized_inventory_0, config.TARGET_INVENTORY_RATIO)}})

\* GLFTModel._apply_inventory_constraints: <<range_a, range_b>>
apply_inventory_constraints(config, range_a, range_b, normalized_inventory_0, normalized_inventory_1) ==
    LET at_token0_limit == RGe(normalized_inventory_0, RSub(One, config.MAX_POSITION_SIZE))
        at_token1_limit == RGe(normalized_inventory_1, RSub(One, config.MAX_POSITION_SIZE))
    IN  <<IF at_token0_limit THEN RMul(range_a, Q(1, 2)) ELSE range_a,
          IF at_token1_limit THEN RMul(range_b, Q(1, 2)) ELSE range_b>>

\* GLFTModel.calculate_lp_ranges
GLFTModel_calculate_lp_ranges(config, token0_balance, token1_balance, spot_price, volatility) ==
    IF ~validate_inputs(token0_balance, token1_balance, spot_price)
    THEN Ranges(config.MIN_RANGE_PERCENTAGE, config.MIN_RANGE_PERCENTAGE, TRUE)
    ELSE The({The({The({The({
            Ranges(RMul(apply_min_max(config, c[1]), N(100)),
                   RMul(apply_min_max(config, c[2]), N(100)), FALSE) :
            c \in {IF config.INVENTORY_CONSTRAINT_ACTIVE
                   THEN apply_inventory_constraints(config, r[1], r[2], n[1], n[2])
                   ELSE r}}) :
            r \in {calculate_glft_ranges(config, n[1], n[2], volatility)}}) :
            n \in {IF RGt(total_value, Zero)
                   THEN <<RDiv(RMul(token0_balance, spot_price), total_value),
                          RDiv(token1_balance, total_value)>>
                   ELSE <<Zero, Zero>>}}) :
            total_value \in {RAdd(RMul(token0_balance, spot_price), token1_balance)}})

\* ModelFactory.create_model(name).calculate_lp_ranges(...)
calculate_lp_ranges(model_name, config, token0_balance, token1_balance, spot_price, volatility) ==
    IF model_name = "SimpleModel"
    THEN SimpleModel_calculate_lp_ranges(config, token0_balance, token1_balance, spot_price, volatility)
    ELSE IF model_name = "AvellanedaStoikovModel"
    THEN AvellanedaStoikovModel_calculate_lp_ranges(config, token0_balance, token1_balance, spot_price, volatility)
    ELSE GLFTModel_calculate_lp_ranges(config, token0_balance, token1_balance, spot_price, volatility)

\* ------------------------------------------------------------ tick-aligned mint

\* the tick grid.  amm.py spaces ticks by the factor 1.0001; the grid here is
\* spaced by the factor 4, whose powers and their square roots are small
\* rationals.  The alignment below is the code's, on this grid.
Ticks == -3..5

\* math.pow(base, t)
tick_to_price(t) == IF t >= 0 THEN N(4 ^ t) ELSE Q(1, 4 ^ (0 - t))

\* math.floor(math.log(p) / math.log(base)): the tick at or below p
price_to_tick(p) ==
    The({IF x[1] >= x[2]
         THEN CHOOSE t \in Ticks : t >= 0 /\ 4 ^ t <= x[1] \div x[2] /\ x[1] \div x[2] < 4 ^ (t + 1)
         ELSE CHOOSE t \in Ticks : RLe(tick_to_price(t), x) /\ RLt(x, tick_to_price(t + 1)) :
         x \in {p}})

\* variant: the aligned ticks taken as they fall, equal or not
mint_bands_percent_unseparated(self, current_price, range_a_pct, range_b_pct, token0_amount, token1_amount) ==
    The({
        The({[self |-> m.self,
              ret  |-> <<m.ret[1],
                         IF m.self.pool.token0_range # NoBand
                         THEN m.self.pool.token0_range.liquidity ELSE Zero,
                         IF m.self.pool.token1_range # NoBand
                         THEN m.self.pool.token1_range.liquidity ELSE Zero,
                         <<tick_to_price(t.ul), tick_to_price(t.uu)>>,
                         <<tick_to_price(t.ll), tick_to_price(t.lu)>> >>] :
             m \in {mint_position(self, token0_amount, token1_amount,
                                  tick_to_price(t.ll), tick_to_price(t.uu),
                                  current_price)}})
        : t \in {[ul |-> price_to_tick(current_price),
                  uu |-> price_to_tick(RMul(current_price, RAdd(One, range_a_pct))),
                  ll |-> price_to_tick(RMul(current_price, RSub(One, range_b_pct))),
                  lu |-> price_to_tick(current_price)]}})

\* AMMSimulator.mint_bands_percent: both bands aligned to ticks, then minted;
\* ret is (total_L, L0, L1, (upper_lower, upper_upper), (lower_lower, lower_upper))
mint_bands_percent(self, current_price, range_a_pct, range_b_pct, token0_amount, token1_amount) ==
    The({
        LET uu_t == IF t.uu = t.ul THEN t.uu + 1 ELSE t.uu
            ll_t == IF t.lu = t.ll THEN t.ll - 1 ELSE t.ll
        IN  The({[self |-> m.self,
                  ret  |-> <<m.ret[1],
                             IF m.self.pool.token0_range # NoBand
                             THEN m.self.pool.token0_range.liquidity ELSE Zero,
                             IF m.self.pool.token1_range # NoBand
                             THEN m.self.pool.token1_range.liquidity ELSE Zero,
                             <<tick_to_price(t.ul), tick_to_price(uu_t)>>,
                             <<tick_to_price(ll_t), tick_to_price(t.lu)>> >>] :
                 m \in {mint_position(self, token0_amount, token1_amount,
                                      tick_to_price(ll_t), tick_to_price(uu_t),
                                      current_price)}})
        : t \in {[ul |-> price_to_tick(current_price),
                  uu |-> price_to_tick(RMul(current_price, RAdd(One, range_a_pct))),
                  ll |-> price_to_tick(RMul(current_price, RSub(One, range_b_pct))),
                  lu |-> price_to_tick(current_price)]}})

\* ------------------------------------------------------------ rebalance plan

\* variant: the token1 proceeds taken off token0 without dividing by the price
restore_token0_units_unpriced(adj, initial_token0_units, current_price) ==
    IF RGt(adj[1], initial_token0_units)
    THEN The({<<RSub(adj[1], sell_cap), RAdd(adj[2], sell_cap)>> :
              sell_cap \in {RMin(RMul(RSub(adj[1], initial_token0_units), current_price),
                                 adj[2])}})
    ELSE IF RLt(adj[1], initial_token0_units)
    THEN The({<<RAdd(adj[1], token1_to_sell), RSub(adj[2], token1_to_sell)>> :
              token1_to_sell \in {RMin(RMul(RSub(initial_token0_units, adj[1]), current_price),
                                       adj[2])}})
    ELSE adj

\* plan_rebalance, restoring the initial units: token0 first, then token1;
\* adj is <<adj_t0, adj_t1>>
restore_token0_units(adj, initial_token0_units, current_price) ==
    IF RGt(adj[1], initial_token0_units)
    THEN The({<<RSub(adj[1], RDiv(sell_cap, current_price)), RAdd(adj[2], sell_cap)>> :
              sell_cap \in {RMin(RMul(RSub(adj[1], initial_token0_units), current_price),
                                 adj[2])}})
    ELSE IF RLt(adj[1], initial_token0_units)
    THEN The({<<RAdd(adj[1], RDiv(token1_to_sell, current_price)),
                RSub(adj[2], token1_to_sell)>> :
              token1_to_sell \in {RMin(RMul(RSub(initial_token0_units, adj[1]), current_price),
                                       adj[2])}})
    ELSE adj

restore_token1_units(adj, initial_token1_units, current_price) ==
    IF RGt(adj[2], initial_token1_units)
    THEN The({<<RAdd(adj[1], sell_cap0), RSub(adj[2], RMul(sell_cap0, current_price))>> :
              sell_cap0 \in {RMin(RDiv(RSub(adj[2], initial_token1_units), current_price),
                                  adj[1])}})
    ELSE IF RLt(adj[2], initial_token1_units)
    THEN The({<<RSub(adj[1], token0_to_sell), RAdd(adj[2], RMul(token0_to_sell, current_price))>> :
              token0_to_sell \in {RMin(RDiv(RSub(initial_token1_units, adj[2]), current_price),
                                       adj[1])}})
    ELSE adj

\* plan_rebalance without unit targets: the split moved toward the target ratio
\* of the value in token0 terms; <<value_0, value_1, total>> bound once
retarget_value_ratio(adj, initial_target_ratio, current_price) ==
    The({The({
        IF RGt(excess[1], Zero)
        THEN The({<<RSub(adj[1], token0_to_sell),
                    RAdd(adj[2], RMul(token0_to_sell, current_price))>> :
                  token0_to_sell \in {RMin(excess[1], adj[1])}})
        ELSE IF RGt(excess[2], Zero)
        THEN The({<<RAdd(adj[1], RDiv(token1_to_sell, current_price)),
                    RSub(adj[2], token1_to_sell)>> :
                  token1_to_sell \in {RMin(RMul(excess[2], current_price), adj[2])}})
        ELSE adj :
        excess \in {<<RSub(v[1], RMul(v[3], initial_target_ratio)),
                      RSub(v[2], RMul(v[3], RSub(One, initial_target_ratio)))>>}}) :
        v \in {The({<<adj[1], v1, RAdd(adj[1], v1)>> :
                    v1 \in {RMul(adj[2], RInv(current_price))}})}})

\* AsymmetricLPStrategy.plan_rebalance: the model's widths as fractions and the
\* balances to deploy
plan_rebalance(model_name, config, volatility, current_price, token0_balance, token1_balance, initial_target_ratio, startup_allocation, initial_token0_units, initial_token1_units, do_conversion) ==
    The({The({[range_a_pct |-> RDiv(ranges.range_a_percentage, N(100)),
               range_b_pct |-> RDiv(ranges.range_b_percentage, N(100)),
               adj_t0 |-> RMax(adj[1], Zero),
               adj_t1 |-> RMax(adj[2], Zero),
               ranges |-> ranges] :
              adj \in {IF ~startup_allocation /\ do_conversion
                       THEN IF initial_token0_units # None /\ initial_token1_units # None
                            THEN restore_token1_units(
                                     restore_token0_units(<<token0_balance, token1_balance>>,
                                                          initial_token0_units, current_price),
                                     initial_token1_units, current_price)
                            ELSE retarget_value_ratio(<<token0_balance, token1_balance>>,
                                                      initial_target_ratio, current_price)
                       ELSE <<token0_balance, token1_balance>>}}) :
         ranges \in {calculate_lp_ranges(model_name, config, token0_balance, token1_balance,
                                         current_price, volatility)}})

\* ------------------------------------------------------------ backtest engine

\* BaseInventoryModel.calculate_volatility: 0.02 with fewer than two returns,
\* else the annualised deviation of the log returns held to [0.01, 2.0]; the
\* values it can take
calculate_volatility(price_history) ==
    IF Len(price_history) < 3 THEN {Q(1, 50)} ELSE {Q(1, 100), One, N(2)}

\* BacktestEngine.__init__; the configuration at its defaults, except
\* INVENTORY_RISK_AVERSION = 0, which keeps the widths of a run small rationals
BacktestEngine(model_name, REBALANCE_THRESHOLD, FEE_TIER, TRADE_DETECTION_THRESHOLD) ==
    [model_name |-> model_name,
     config |-> [Config(N(2), N(50), Q(1, 5), FALSE) EXCEPT !.INVENTORY_RISK_AVERSION = Zero],
     REBALANCE_THRESHOLD |-> REBALANCE_THRESHOLD,
     TRADE_DETECTION_THRESHOLD |-> TRADE_DETECTION_THRESHOLD,
     fee_tier_bps |-> FEE_TIER,
     positions |-> <<>>,
     balance_0 |-> Zero, balance_1 |-> Zero,
     price_history |-> <<>>,
     trades |-> <<>>,
     rebalances |-> <<>>,
     last_rebalance_token0 |-> Zero, last_rebalance_token1 |-> Zero,
     last_rebalance_price |-> None,
     portfolio_values |-> <<>>,
     initial_positions_created |-> FALSE,
     initial_token0 |-> Zero, initial_token1 |-> Zero,
     initial_target_ratio |-> None,
     running |-> FALSE, initial_price |-> None, bar |-> 0,
     \* history: run_backtest calls on this object, and what the first returned
     runs |-> 0, first_run |-> None]

\* BacktestPosition
BacktestPosition(token_id, token0_amount, token1_amount, tick_lower, tick_upper, liquidity) ==
    [token_id |-> token_id, token0_amount |-> token0_amount, token1_amount |-> token1_amount,
     tick_lower |-> tick_lower, tick_upper |-> tick_upper, liquidity |-> liquidity]

\* BacktestTrade.from_swap_event
BacktestTrade(swap_event) ==
    [timestamp |-> swap_event.timestamp, price |-> swap_event.price,
     volume |-> swap_event.volume_usd, trade_type |-> swap_event.trade_type,
     fees_earned |-> RAdd(swap_event.fees_token0, swap_event.fees_token1),
     new_token0_balance |-> swap_event.new_token0_balance,
     new_token1_balance |-> swap_event.new_token1_balance]

\* BacktestEngine.calculate_position_value: <<value_0, value_1>>
calculate_position_value(position, current_price) ==
    <<position.token0_amount, RMul(position.token1_amount, RInv(current_price))>>

RECURSIVE sum_position_values(_, _)
sum_position_values(positions, current_price) ==
    IF positions = <<>> THEN Zero
    ELSE The({RAdd(RAdd(v[1], v[2]), sum_position_values(Tail(positions), current_price)) :
              v \in {calculate_position_value(Head(positions), current_price)}})

\* BacktestEngine.calculate_portfolio_value
calculate_portfolio_value(self, current_price) ==
    RAdd(RAdd(self.balance_0, RMul(self.balance_1, RInv(current_price))),
         sum_position_values(self.positions, current_price))

\* variant: the baselines are the starting balances of the run, not the post-mint ones
update_baselines_to_initial(self, current_price) ==
    [self EXCEPT !.last_rebalance_token0 = self.initial_token0,
                 !.last_rebalance_token1 = self.initial_token1,
                 !.last_rebalance_price = current_price]

\* variant: the token baselines refreshed, the baseline price left as it was
update_baselines_keeping_price(self, current_price) ==
    [self EXCEPT !.last_rebalance_token0 = self.balance_0,
                 !.last_rebalance_token1 = self.balance_1]

\* rebalance_positions: Update rebalance baselines (edge-triggered logic)
update_baselines(self, current_price) ==
    [self EXCEPT !.last_rebalance_token0 = self.balance_0,
                 !.last_rebalance_token1 = self.balance_1,
                 !.last_rebalance_price = current_price]

\* rebalance_positions, the mint branch: bands minted in the simulator, the two
\* positions booked, the mirror and the baselines refreshed
deploy_positions(self, amm_simulator, plan, current_price, timestamp, startup_allocation) ==
    The({The({[self |-> update_baselines(
                            [self EXCEPT
                               !.positions =
                                   <<BacktestPosition(<<"pos_sell", timestamp>>,
                                        IF RGt(plan.adj_t0, Zero) THEN plan.adj_t0 ELSE Zero,
                                        Zero, m.ret[4][1], m.ret[4][2], m.ret[2]),
                                     BacktestPosition(<<"pos_buy", timestamp>>,
                                        Zero,
                                        IF RGt(plan.adj_t1, Zero) THEN plan.adj_t1 ELSE Zero,
                                        m.ret[5][1], m.ret[5][2], m.ret[3])>>,
                               !.initial_positions_created =
                                   IF startup_allocation THEN TRUE ELSE @,
                               !.balance_0 = balances[1],
                               !.balance_1 = balances[2]],
                            current_price),
               amm_simulator |-> m.self] :
              balances \in {get_active_positions_balances(m.self)}}) :
         m \in {mint_bands_percent(amm_simulator, current_price, plan.range_a_pct,
                                   plan.range_b_pct, plan.adj_t0, plan.adj_t1)}})

\* BacktestEngine.rebalance_positions: burn, plan, mint, bookkeep.  The engine
\* and the simulator after the call, and whether bands were minted
rebalance_positions(self, amm_simulator, current_price, timestamp, volatility) ==
    The({The({The({
        [self |-> [r.self EXCEPT !.rebalances =
                       Append(@, [timestamp |-> timestamp, price |-> current_price,
                                  positions_burned |-> Len(self.positions),
                                  new_positions |-> Len(r.self.positions),
                                  is_initial_mint |-> ~self.initial_positions_created,
                                  range_a_percentage |-> plan.ranges.range_a_percentage,
                                  range_b_percentage |-> plan.ranges.range_b_percentage])],
         amm_simulator |-> r.amm_simulator,
         minted |-> RGt(plan.adj_t0, Zero) \/ RGt(plan.adj_t1, Zero)] :
        r \in {IF RGt(plan.adj_t0, Zero) \/ RGt(plan.adj_t1, Zero)
               THEN deploy_positions([self EXCEPT !.positions = <<>>],
                                     clear_all_positions(amm_simulator), plan,
                                     current_price, timestamp,
                                     ~self.initial_positions_created)
               ELSE [self |-> [self EXCEPT !.positions = <<>>],
                     amm_simulator |-> clear_all_positions(amm_simulator)]}}) :
        plan \in {plan_rebalance(self.model_name, self.config, volatility, current_price,
                                 b[1], b[2], self.initial_target_ratio,
                                 ~self.initial_positions_created,
                                 self.initial_token0, self.initial_token1,
                                 ~self.initial_positions_created)}}) :
        b \in {IF has_active_positions(amm_simulator)
               THEN get_active_positions_balances(amm_simulator)
               ELSE <<self.balance_0, self.balance_1>>}})

\* run_backtest up to its loop: balances, run lists, target ratio; the
\* configuration's TARGET_INVENTORY_RATIO follows the starting balances
run_backtest_begin(self, initial_balance_0, initial_balance_1, initial_price) ==
    The({[self EXCEPT
            !.balance_0 = initial_balance_0,
            !.balance_1 = initial_balance_1,
            !.initial_token0 = initial_balance_0,
            !.initial_token1 = initial_balance_1,
            !.positions = <<>>,
            !.price_history = <<>>,
            !.trades = <<>>,
            !.rebalances = <<>>,
            !.initial_target_ratio = ratio,
            !.config = [@ EXCEPT !.TARGET_INVENTORY_RATIO = ratio],
            !.running = TRUE, !.initial_price = initial_price, !.bar = 0,
            !.runs = @ + 1] :
         ratio \in {The({IF RGt(total, Zero) THEN RDiv(initial_balance_0, total) ELSE Q(1, 2) :
                         total \in {RAdd(initial_balance_0,
                                         RMul(initial_balance_1, RInv(initial_price)))}})}})

\* the running peak of the first i values
peak_until(values, i) ==
    CHOOSE v \in {values[k] : k \in 1..i} : \A k \in 1..i : RGe(v, values[k])

\* BacktestEngine.calculate_token_drawdown: the largest (peak - value) / peak
\* over the portfolio values; numpy gives nan, here <<0, 0>>, when a peak is zero
calculate_token_drawdown(self) ==
    IF Len(self.portfolio_values) < 2 THEN Zero
    ELSE IF \E i \in 1..Len(self.portfolio_values) :
                peak_until(self.portfolio_values, i) = Zero
    THEN <<0, 0>>
    ELSE The({CHOOSE d \in ds : \A e \in ds : RGe(d, e) :
              ds \in {{RDiv(RSub(peak_until(self.portfolio_values, i), self.portfolio_values[i]),
                            peak_until(self.portfolio_values, i)) :
                       i \in 1..Len(self.portfolio_values)}}})

\* run_backtest after its loop: what the run hands back and leaves behind, with
\* the data it ran on
run_result(self) ==
    [closes |-> [i \in 1..Len(self.price_history) |-> self.price_history[i].price],
     initial_balance_0 |-> self.initial_token0,
     initial_balance_1 |-> self.initial_token1,
     trades |-> self.trades,
     rebalances |-> self.rebalances,
     last_rebalance_token0 |-> self.last_rebalance_token0,
     last_rebalance_token1 |-> self.last_rebalance_token1,
     last_rebalance_price |-> self.last_rebalance_price,
     token0_drawdown |-> calculate_token_drawdown(self)]

\* the price history with the bar appended, cut to the volatility window of 20
append_price(price_history, timestamp, current_price) ==
    LET h == Append(price_history, [timestamp |-> timestamp, price |-> current_price])
    IN  IF Len(h) > 20 THEN SubSeq(h, Len(h) - 19, Len(h)) ELSE h

\* variant: the trade logged, the mirror left as it was
record_trade_keeping_mirror(self, swap_event) ==
    IF swap_event = NoEvent THEN self
    ELSE [self EXCEPT !.trades = Append(@, BacktestTrade(swap_event))]

\* run_backtest, a fill: the trade logged, the mirror overwritten by the event
record_trade(self, swap_event) ==
    IF swap_event = NoEvent THEN self
    ELSE [self EXCEPT !.trades = Append(@, BacktestTrade(swap_event)),
                      !.balance_0 = swap_event.new_token0_balance,
                      !.balance_1 = swap_event.new_token1_balance]

\* variant: the trigger is evaluated on the balances the bar started with, the
\* swap applied afterwards
process_bar_deciding_first(self, amm_simulator, current_price, volatility) ==
    The({The({The({
        [self |-> [r.self EXCEPT !.portfolio_values =
                       Append(@, calculate_portfolio_value(r.self, current_price))],
         amm_simulator |-> r.amm_simulator,
         swap_event |-> c.ret,
         traded |-> traded,
         swapped |-> c.self,
         rebalanced |-> engine_should_rebalance(self),
         minted |-> r.minted] :
        r \in {IF engine_should_rebalance(self)
               THEN rebalance_positions(traded, c.self, current_price, self.bar + 1, volatility)
               ELSE [self |-> traded, amm_simulator |-> c.self, minted |-> FALSE]}}) :
        traded \in {record_trade([self EXCEPT
                                    !.bar = self.bar + 1,
                                    !.price_history = append_price(@, self.bar + 1, current_price)],
                                 c.ret)}}) :
        c \in {compute(amm_simulator, [timestamp |-> self.bar + 1, close |-> current_price])}})

\* run_backtest, the body of its loop for one bar: history, simulator, trade,
\* trigger, rebalance, portfolio value
process_bar(self, amm_simulator, current_price, volatility) ==
    The({The({The({
        [self |-> [r.self EXCEPT !.portfolio_values =
                       Append(@, calculate_portfolio_value(r.self, current_price))],
         amm_simulator |-> r.amm_simulator,
         swap_event |-> c.ret,
         traded |-> traded,
         swapped |-> c.self,
         rebalanced |-> engine_should_rebalance(traded),
         minted |-> r.minted] :
        r \in {IF engine_should_rebalance(traded)
               THEN rebalance_positions(traded, c.self, current_price, self.bar + 1, volatility)
               ELSE [self |-> traded, amm_simulator |-> c.self, minted |-> FALSE]}}) :
        traded \in {record_trade([self EXCEPT
                                    !.bar = self.bar + 1,
                                    !.price_history = append_price(@, self.bar + 1, current_price)],
                                 c.ret)}}) :
        c \in {compute(amm_simulator, [timestamp |-> self.bar + 1, close |-> current_price])}})

\* ------------------------------------------------------------ saved results

\* list.sort(key=...) is stable: e goes behind every element whose key is not
\* greater than its own
insert_behind_equals(sorted, e) ==
    The({SubSeq(sorted, 1, k) \o <<e>> \o SubSeq(sorted, k + 1, Len(sorted)) :
         k \in {Cardinality({i \in 1..Len(sorted) : sorted[i].dt <= e.dt})}})

RECURSIVE sort_by_dt(_)
sort_by_dt(timeline) ==
    IF Len(timeline) = 0 THEN <<>>
    ELSE insert_behind_equals(sort_by_dt(SubSeq(timeline, 1, Len(timeline) - 1)),
                              timeline[Len(timeline)])

\* save_results, the timeline before sorting: every trade, then every rebalance
timeline_entries(trades, rebalances) ==
    [i \in 1..Len(trades) |->
        [dt |-> trades[i].timestamp, type |-> "trade",
         timestamp |-> trades[i].timestamp, price |-> trades[i].price]]
    \o
    [i \in 1..Len(rebalances) |->
        [dt |-> rebalances[i].timestamp, type |-> "rebalance",
         timestamp |-> rebalances[i].timestamp, price |-> rebalances[i].price]]

\* variant: the timeline written as collected, without the sort
events_unsorted(trades, rebalances) ==
    [i \in 1..Len(trades) + Len(rebalances) |->
        [type |-> timeline_entries(trades, rebalances)[i].type,
         timestamp |-> timeline_entries(trades, rebalances)[i].timestamp,
         price |-> timeline_entries(trades, rebalances)[i].price]]

\* save_results, data['events']: the timeline sorted by datetime, helper dropped
events(trades, rebalances) ==
    The({[i \in 1..Len(sorted) |->
             [type |-> sorted[i].type, timestamp |-> sorted[i].timestamp,
              price |-> sorted[i].price]] :
         sorted \in {sort_by_dt(timeline_entries(trades, rebalances))}})

\* ------------------------------------------------------------ model factory

\* the classes that inherit from BaseInventoryModel
BaseInventoryModelSubclasses == {"AvellanedaStoikovModel", "SimpleModel", "GLFTModel"}

\* issubclass(model_class, BaseInventoryModel)
issubclass(model_class) == model_class \in BaseInventoryModelSubclasses

\* a dict in insertion order: a sequence of <<key, value>>
keys(d) == [i \in 1..Len(d) |-> d[i][1]]
has_key(d, k) == \E i \in 1..Len(d) : d[i][1] = k
get_item(d, k) == d[CHOOSE i \in 1..Len(d) : d[i][1] = k][2]
set_item(d, k, v) ==
    IF has_key(d, k)
    THEN [i \in 1..Len(d) |-> IF d[i][1] = k THEN <<k, v>> ELSE d[i]]
    ELSE Append(d, <<k, v>>)

\* ModelFactory._models as the class is loaded
ModelFactory ==
    [models |-> << <<"AvellanedaStoikovModel", "AvellanedaStoikovModel">>,
                   <<"SimpleModel", "SimpleModel">> >>]

\* ModelFactory.create_model: an instance of the registered class, or a
\* ValueError naming the available models
create_model(cls, model_name) ==
    IF ~has_key(cls.models, model_name)
    THEN [raised |-> TRUE, error |-> "ValueError", unknown |-> model_name,
          available_models |-> keys(cls.models)]
    ELSE [raised |-> FALSE, instance_of |-> get_item(cls.models, model_name)]

\* variant: the class is stored first and tested afterwards
register_model_unchecked(cls, name, model_class) ==
    [cls |-> [cls EXCEPT !.models = set_item(@, name, model_class)],
     raised |-> ~issubclass(model_class)]

\* ModelFactory.register_model
register_model(cls, name, model_class) ==
    IF ~issubclass(model_class)
    THEN [cls |-> cls, raised |-> TRUE]
    ELSE [cls |-> [cls EXCEPT !.models = set_item(@, name, model_class)],
          raised |-> FALSE]

\* ------------------------------------------------------------ live rebalancer

\* the ids 'new_position_a' and 'new_position_b' written into memory in place
\* of the ids of the NFTs minted: they name no NFT (NFT ids are 1, 2, ...)
new_position_a == -1
new_position_b == -2

\* dict.get(key, default) on a dict held as a record
get(d, key, default) == IF key \in DOMAIN d THEN d[key] ELSE default

\* token ids in the order the position manager enumerates them
RECURSIVE tokenOfOwnerByIndex(_)
tokenOfOwnerByIndex(owned) ==
    IF owned = {}
    THEN <<>>
    ELSE LET first == CHOOSE t \in owned : \A u \in owned : t <= u
         IN <<first>> \o tokenOfOwnerByIndex(owned \ {first})

\* AutomatedRebalancer.__init__: the fields the rebalance reads and writes
AutomatedRebalancer == [current_positions |-> <<>>, last_spot_price |-> None]

\* AutomatedRebalancer._query_positions_from_blockchain: the owned NFTs with
\* liquidity, as far as the node answers: an enumeration that raises gives [],
\* a position whose info cannot be read is skipped
\*   chain   : the wallet's NFTs with liquidity > 0
\*   listing : the enumeration of owned tokens answers
\*   answers : the tokens whose get_position_info answers
query_positions_from_blockchain(chain, listing, answers) ==
    IF ~listing
    THEN <<>>
    ELSE LET found == tokenOfOwnerByIndex(chain \cap answers)
         IN [i \in 1..Len(found) |-> [token_id |-> found[i]]]

\* AutomatedRebalancer.verify_positions_burned
verify_positions_burned(chain, listing, answers) ==
    Len(query_positions_from_blockchain(chain, listing, answers)) = 0

\* AutomatedRebalancer.initialize_positions
initialize_positions(self, chain, listing, answers) ==
    [self EXCEPT !.current_positions = query_positions_from_blockchain(chain, listing, answers)]

\* AutomatedRebalancer.get_position_ranges: a copy of the list in memory
get_position_ranges(self) == self.current_positions

\* AutomatedRebalancer.should_rebalance
\*   inventory : what the inventory model answers: "balanced", "imbalanced",
\*               or "error" when it (or the balance query) raises
live_should_rebalance(positions, inventory) ==
    IF Len(positions) = 0
    THEN TRUE
    ELSE inventory = "imbalanced"

\* AutomatedRebalancer.create_single_sided_positions: two add_liquidity calls,
\* each minting an NFT when its transaction succeeds; the dict returned, the
\* NFTs minted, and the count of NFTs ever minted
\*   pool : the pool lookup before the two calls answers
create_single_sided_positions(minted, spot_price, range_a, range_b, pool, a_ok, b_ok) ==
    IF ~pool
    THEN [ret |-> [error |-> "pool"], created |-> {}, minted |-> minted]
    ELSE LET after_a == IF a_ok THEN minted + 1 ELSE minted
             after_b == IF b_ok THEN after_a + 1 ELSE after_a
         IN [ret |-> [position_a |-> [success |-> a_ok],
                      position_b |-> [success |-> b_ok],
                      spot_price |-> spot_price,
                      range_a |-> range_a,
                      range_b |-> range_b],
             created |-> (minted + 1)..after_b,
             minted |-> after_b]

\* the positions written into memory after a creation
new_positions ==
    << [token_id |-> new_position_a, status |-> "created"],
       [token_id |-> new_position_b, status |-> "created"] >>

\* what a rebalance leaves: the object, the chain, and the dict returned
\*   verified : what verify_positions_burned answered
\*   created  : the NFTs minted by the call
rebalanced(self, chain, minted, verified, created, ret) ==
    [self |-> self, chain |-> chain, minted |-> minted,
     verified |-> verified, created |-> created, ret |-> ret]

\* the dict returned, with the burn bookkeeping added to it
with_burn_info(result, fees_collected, positions_burned) ==
    [k \in DOMAIN result \cup {"fees_collected", "positions_burned"} |->
        IF k = "fees_collected" THEN fees_collected
        ELSE IF k = "positions_burned" THEN positions_burned
        ELSE result[k]]

\* variant: the list in memory is cleared before the burn is verified
live_rebalance_positions_clearing_first(self, chain, minted, env) ==
    LET existing_positions == self.current_positions
        ids == {existing_positions[i].token_id : i \in 1..Len(existing_positions)}
        burned == (chain \cap ids) \cap env.burns
        remaining == chain \ burned
        cleared == [self EXCEPT !.current_positions = <<>>]
    IN IF ~verify_positions_burned(remaining, env.listing, env.answers)
       THEN rebalanced(cleared, remaining, minted, FALSE, {},
                       [error |-> "Failed to burn all positions"])
       ELSE IF env.spot_price = 0
       THEN rebalanced(cleared, remaining, minted, TRUE, {},
                       [error |-> "Could not get spot price"])
       ELSE LET c == create_single_sided_positions(minted, env.spot_price, 2, 2,
                                                   env.pool, env.a_ok, env.b_ok)
            IN rebalanced(IF get(c.ret, "success", FALSE)
                          THEN [cleared EXCEPT !.current_positions = new_positions]
                          ELSE cleared,
                          remaining \cup c.created, c.minted, TRUE, c.created,
                          with_burn_info(c.ret, burned, Len(existing_positions)))

\* AutomatedRebalancer.rebalance_positions: burn what is in memory, verify on
\* chain that nothing is left, clear the memory, create the two new positions
\*   env.burns      : the tokens whose burn transaction succeeds
\*   env.listing, env.answers : what the verification query can read
\*   env.spot_price : the spot price read (0 when the read fails)
\*   env.pool, env.a_ok, env.b_ok : how the creation goes
\* the ranges are the minimum 2% on both sides; fee amounts are not modelled,
\* fees_collected holds the positions whose fees were added
live_rebalance_positions(self, chain, minted, env) ==
    LET existing_positions == self.current_positions
        ids == {existing_positions[i].token_id : i \in 1..Len(existing_positions)}
        burned == (chain \cap ids) \cap env.burns
        remaining == chain \ burned
        cleared == [self EXCEPT !.current_positions = <<>>]
    IN IF ~verify_positions_burned(remaining, env.listing, env.answers)
       THEN rebalanced(self, remaining, minted, FALSE, {},
                       [error |-> "Failed to burn all positions"])
       ELSE IF env.spot_price = 0
       THEN rebalanced(cleared, remaining, minted, TRUE, {},
                       [error |-> "Could not get spot price"])
       ELSE LET c == create_single_sided_positions(minted, env.spot_price, 2, 2,
                                                   env.pool, env.a_ok, env.b_ok)
            IN rebalanced(IF get(c.ret, "success", FALSE)
                          THEN [cleared EXCEPT !.current_positions = new_positions]
                          ELSE cleared,
                          remaining \cup c.created, c.minted, TRUE, c.created,
                          with_burn_info(c.ret, burned, Len(existing_positions)))

\* ------------------------------------------------------------ state

VARIABLES
    amm,    \* the AMMSimulator object (its pool and bands inside)
    call,   \* the last operation: its name, arguments, the state before it, its result
    steps,  \* operations performed so far
    mints,  \* mint_position calls so far
    trig,   \* a trigger evaluation: the engine fields it reads, and its answer
    mdl,    \* a range calculation: the model, its inputs, and its result
    eng,    \* the BacktestEngine object
    factory, \* the ModelFactory class: its registry
    plan,   \* a plan_rebalance call: its arguments and what it returned
    live    \* the AutomatedRebalancer object and the positions on chain

vars == <<amm, call, steps, mints, trig, mdl, eng, factory, plan, live>>

\* the trigger is not under evaluation
TrigIdle == [evaluated |-> FALSE]
\* no range calculation is under way
MdlIdle == [done |-> FALSE]
\* no engine has been constructed
EngIdle == [running |-> FALSE]
\* no rebalance is being planned
PlanIdle == [planned |-> FALSE]
\* no live rebalancer has been constructed
LiveIdle == [constructed |-> FALSE]

\* ------------------------------------------------------------ bounds and inputs

MaxSqrtPrice == 4
MaxSteps == 3
MaxMints == 2
MaxCycles == 2

\* bar closes and band edges: the perfect squares 4, 9, ..., MaxSqrtPrice^2
Prices == {N(r * r) : r \in 2..MaxSqrtPrice}
\* deposits
Amounts == {Zero, N(60)}
\* FEE_TIER in basis points (Config.validate accepts 5, 500, 3000, 10000)
FeeTiers == {3000}
\* TRADE_DETECTION_THRESHOLD: the default 0.0005, and 5/4 (the move 4 -> 9)
Thresholds == {Q(1, 2000), Q(5, 4)}

\* current prices of a tick-aligned mint: the bar closes, and 49/4, from which
\* a width of 50% reaches the next tick
MintPrices == Prices \cup {Q(49, 4)}
\* pairs of widths a model returns, as fractions: narrow and wide (2% and 50%)
\* either way round, and both narrow
RangeWidths == {<<Q(1, 50), Q(1, 2)>>, <<Q(1, 2), Q(1, 50)>>, <<Q(1, 50), Q(1, 50)>>}

\* ------------------------------------------------------------ the simulator driven through its API

InitAMM ==
    /\ \E fee \in FeeTiers, th \in Thresholds : amm = AMMSimulator(fee, th)
    /\ call = [op |-> "init"]
    /\ factory = ModelFactory
    /\ plan = PlanIdle
    /\ live = LiveIdle
    /\ steps = 0
    /\ mints = 0
    /\ trig = TrigIdle
    /\ mdl = MdlIdle
    /\ eng = EngIdle

Compute(close) ==
    /\ steps < MaxSteps
    /\ LET r == compute(amm, [timestamp |-> steps + 1, close |-> close])
       IN  /\ amm' = r.self
           /\ call' = [op |-> "compute", pre |-> amm, close |-> close, ret |-> r.ret,
                       token0_record |-> r.token0_record,
                       token1_record |-> r.token1_record]
    /\ steps' = steps + 1
    /\ UNCHANGED <<mints, trig, mdl, eng, factory, plan, live>>

PoolSwap(price) ==
    /\ steps < MaxSteps
    /\ has_active_positions(amm)
    /\ LET r == pool_swap(amm.pool, price)
       IN  /\ amm' = [amm EXCEPT !.pool = r.pool]
           /\ call' = [op |-> "swap", pre |-> amm, price |-> price,
                       token0_record |-> r.token0_record,
                       token1_record |-> r.token1_record]
    /\ steps' = steps + 1
    /\ UNCHANGED <<mints, trig, mdl, eng, factory, plan, live>>

MintPosition(token0_amount, token1_amount, tick_lower, tick_upper, current_price) ==
    /\ steps < MaxSteps
    /\ mints < MaxMints
    /\ LET r == mint_position(amm, token0_amount, token1_amount,
                              tick_lower, tick_upper, current_price)
       IN  /\ amm' = r.self
           /\ call' = [op |-> "mint",
                       had_token0_range |-> amm.pool.token0_range # NoBand,
                       had_token1_range |-> amm.pool.token1_range # NoBand,
                       token0_amount |-> token0_amount, token1_amount |-> token1_amount,
                       tick_lower |-> tick_lower, tick_upper |-> tick_upper,
                       current_price |-> current_price, ret |-> r.ret]
    /\ steps' = steps + 1
    /\ mints' = mints + 1
    /\ UNCHANGED <<trig, mdl, eng, factory, plan, live>>

\* the engine's mint: widths as fractions, from the range a model returned
MintBandsPercent(current_price, range_a_pct, range_b_pct, token0_amount, token1_amount) ==
    /\ steps < MaxSteps
    /\ mints < MaxMints
    /\ \E r \in {mint_bands_percent(amm, current_price, range_a_pct, range_b_pct,
                                    token0_amount, token1_amount)} :
          /\ amm' = r.self
          /\ call' = [op |-> "mint_bands",
                      current_price |-> current_price,
                      range_a_pct |-> range_a_pct, range_b_pct |-> range_b_pct,
                      token0_amount |-> token0_amount, token1_amount |-> token1_amount,
                      ret |-> r.ret]
    /\ steps' = steps + 1
    /\ mints' = mints + 1
    /\ UNCHANGED <<trig, mdl, eng, factory, plan, live>>

ClearAllPositions ==
    /\ steps < MaxSteps
    /\ has_active_positions(amm)
    /\ amm' = clear_all_positions(amm)
    /\ call' = [op |-> "clear"]
    /\ steps' = steps + 1
    /\ UNCHANGED <<mints, trig, mdl, eng, factory, plan, live>>

NextAMM ==
    \/ \E close \in Prices : Compute(close)
    \/ \E price \in Prices : PoolSwap(price)
    \/ \E a0, a1 \in Amounts, lo, up, p \in Prices :
          /\ RLe(lo, p) /\ RLe(p, up)
          /\ MintPosition(a0, a1, lo, up, p)
    \/ \E p \in MintPrices, w \in RangeWidths, a0, a1 \in Amounts :
          MintBandsPercent(p, w[1], w[2], a0, a1)
    \/ ClearAllPositions

SpecAMM == InitAMM /\ [][NextAMM]_vars

\* ------------------------------------------------------------ the trigger on its own

\* balances and baselines of the engine: zero, and the balances 500, 600, 1000
Balances == {Zero, N(500), N(600), N(1000)}
Baselines == {Zero, N(500), N(1000)}
\* REBALANCE_THRESHOLD: the default 0.10, and 0.4 and 0.6
RebalanceThresholds == {Q(1, 10), Q(2, 5), Q(3, 5)}
\* the engine's position list: empty, or the two positions of a rebalance
PositionLists == {<<>>, <<"position_0", "position_1">>}

InitTrigger ==
    /\ \E b0, b1 \in Balances, l0, l1 \in Baselines,
          ps \in PositionLists, th \in RebalanceThresholds :
          trig = [balance_0 |-> b0, balance_1 |-> b1,
                  last_rebalance_token0 |-> l0, last_rebalance_token1 |-> l1,
                  positions |-> ps, REBALANCE_THRESHOLD |-> th,
                  evaluated |-> FALSE, ret |-> FALSE]
    /\ amm = AMMSimulator(3000, Q(1, 2000))
    /\ call = [op |-> "init"]
    /\ factory = ModelFactory
    /\ plan = PlanIdle
    /\ live = LiveIdle
    /\ steps = 0
    /\ mints = 0
    /\ mdl = MdlIdle
    /\ eng = EngIdle

ShouldRebalance ==
    /\ ~trig.evaluated
    /\ trig' = [trig EXCEPT !.evaluated = TRUE, !.ret = engine_should_rebalance(trig)]
    /\ UNCHANGED <<amm, call, steps, mints, mdl, eng, factory, plan, live>>

NextTrigger == ShouldRebalance

SpecStrategy == InitTrigger /\ [][NextTrigger]_vars

\* ------------------------------------------------------------ properties of the trigger

\* the token is below its baseline by strictly more than the threshold
Depleted(baseline, current, threshold) ==
    /\ RLt(current, baseline)
    /\ RGt(RDiv(RSub(baseline, current), baseline), threshold)

C5_WitnessNotDue ==
    /\ trig.evaluated
    /\ Len(trig.positions) > 0
    /\ trig.last_rebalance_token0 = N(1000)
    /\ trig.balance_0 = N(500)
    /\ trig.last_rebalance_token1 = trig.balance_1
    /\ trig.REBALANCE_THRESHOLD = Q(3, 5)
    /\ ~trig.ret

ModelNames == {"SimpleModel", "AvellanedaStoikovModel", "GLFTModel"}
\* balances in whole tokens, -1 being an invalid input; spot prices, 0 being an
\* invalid input
ModelBalances0 == {N(-1), Zero, N(1), N(3)}
ModelBalances1 == {Zero, N(4), N(12)}
SpotPrices == {Zero, N(4)}
\* calculate_volatility answers within [0.01, 2.0]
Volatilities == {Q(1, 10), One, N(2)}
\* MIN_RANGE_PERCENTAGE and MAX_RANGE_PERCENTAGE: the defaults 2 and 20 or 50,
\* and the settings 5 and 8
MinRanges == {N(2), N(5)}
MaxRanges == {N(8), N(20), N(50)}
\* BASE_SPREAD: the defaults 0.01 and 0.20
BaseSpreads == {Q(1, 100), Q(1, 5)}

InitModels ==
    /\ \E name \in ModelNames, lo \in MinRanges, hi \in MaxRanges, bs \in BaseSpreads,
          active \in BOOLEAN, b0 \in ModelBalances0, b1 \in ModelBalances1,
          p \in SpotPrices, vol \in Volatilities :
          mdl = [model_name |-> name, config |-> Config(lo, hi, bs, active),
                 token0_balance |-> b0, token1_balance |-> b1,
                 spot_price |-> p, volatility |-> vol,
                 done |-> FALSE, ret |-> Ranges(Zero, Zero, FALSE)]
    /\ amm = AMMSimulator(3000, Q(1, 2000))
    /\ call = [op |-> "init"]
    /\ factory = ModelFactory
    /\ plan = PlanIdle
    /\ live = LiveIdle
    /\ steps = 0
    /\ mints = 0
    /\ trig = TrigIdle
    /\ eng = EngIdle

CalculateLpRanges ==
    /\ ~mdl.done
    /\ mdl' = [mdl EXCEPT !.done = TRUE,
                          !.ret = calculate_lp_ranges(mdl.model_name, mdl.config,
                                      mdl.token0_balance, mdl.token1_balance,
                                      mdl.spot_price, mdl.volatility)]
    /\ UNCHANGED <<amm, call, steps, mints, trig, eng, factory, plan, live>>

NextModels == CalculateLpRanges

SpecModels == InitModels /\ [][NextModels]_vars

\* ------------------------------------------------------------ properties of the inventory models

\* MIN_RANGE_PERCENTAGE <= percentage <= MAX_RANGE_PERCENTAGE
WithinConfig(config, percentage) ==
    /\ RLe(config.MIN_RANGE_PERCENTAGE, percentage)
    /\ RLe(percentage, config.MAX_RANGE_PERCENTAGE)

\* C7: for every inventory model and every input, fallback path included, both
\* range_a_percentage and range_b_percentage of the result lie within
\* [MIN_RANGE_PERCENTAGE, MAX_RANGE_PERCENTAGE] of the configuration.
C7_RangeClamping ==
    mdl.done =>
        /\ WithinConfig(mdl.config, mdl.ret.range_a_percentage)
        /\ WithinConfig(mdl.config, mdl.ret.range_b_percentage)

\* the two models that clamp against the configuration stay within it
ConfigClampedModels ==
    (mdl.done /\ mdl.model_name # "SimpleModel") =>
        /\ WithinConfig(mdl.config, mdl.ret.range_a_percentage)
        /\ WithinConfig(mdl.config, mdl.ret.range_b_percentage)

\* SimpleModel on the defaults MIN_RANGE_PERCENTAGE = 2 and MAX_RANGE_PERCENTAGE
\* = 20 or 50, where its own limits coincide with or lie inside the configured ones
SimpleModelOnDefaults ==
    (mdl.done /\ mdl.model_name = "SimpleModel"
        /\ mdl.config.MIN_RANGE_PERCENTAGE = N(2)
        /\ RGe(mdl.config.MAX_RANGE_PERCENTAGE, N(20))) =>
        /\ WithinConfig(mdl.config, mdl.ret.range_a_percentage)
        /\ WithinConfig(mdl.config, mdl.ret.range_b_percentage)

\* C12: calculate_lp_ranges of every model, called with a negative balance or a
\* non-positive spot price, does not raise to the caller: it returns a result
\* whose two range percentages are the minimum configured range and whose
\* metadata has fallback_used set.
C12_FallbackAtConfiguredMinimum ==
    (mdl.done /\ ~validate_inputs(mdl.token0_balance, mdl.token1_balance, mdl.spot_price)) =>
        /\ mdl.ret.fallback_used
        /\ mdl.ret.range_a_percentage = mdl.config.MIN_RANGE_PERCENTAGE
        /\ mdl.ret.range_b_percentage = mdl.config.MIN_RANGE_PERCENTAGE

\* the two models that read the configuration fall back to its minimum
ConfigClampedFallback ==
    (mdl.done /\ mdl.model_name # "SimpleModel"
        /\ ~validate_inputs(mdl.token0_balance, mdl.token1_balance, mdl.spot_price)) =>
        /\ mdl.ret.fallback_used
        /\ mdl.ret.range_a_percentage = mdl.config.MIN_RANGE_PERCENTAGE
        /\ mdl.ret.range_b_percentage = mdl.config.MIN_RANGE_PERCENTAGE

\* every model sets fallback_used exactly on invalid inputs
FallbackFlagged ==
    mdl.done =>
        (mdl.ret.fallback_used <=>
            ~validate_inputs(mdl.token0_balance, mdl.token1_balance, mdl.spot_price))

\* ------------------------------------------------------------ the factory on its own

MaxRegistrations == 2

\* names asked of the factory: the three models, a model to come, a wrong name
FactoryNames == {"AvellanedaStoikovModel", "GLFTModel", "SimpleModel", "MLModel", "invalid_model"}
\* classes offered to register_model: the three models and a class that is no model
OfferedClasses == BaseInventoryModelSubclasses \cup {"Quoter"}

InitFactory ==
    /\ factory = ModelFactory
    /\ plan = PlanIdle
    /\ live = LiveIdle
    /\ call = [op |-> "import", registrations |-> 0, accepted |-> {}]
    /\ amm = AMMSimulator(3000, Q(1, 2000))
    /\ steps = 0
    /\ mints = 0
    /\ trig = TrigIdle
    /\ mdl = MdlIdle
    /\ eng = EngIdle

CreateModel(model_name) ==
    /\ call' = [op |-> "create_model", model_name |-> model_name,
                ret |-> create_model(factory, model_name),
                registrations |-> call.registrations, accepted |-> call.accepted]
    /\ UNCHANGED <<factory, amm, steps, mints, trig, mdl, eng, plan, live>>

RegisterModel(name, model_class) ==
    /\ call.registrations < MaxRegistrations
    /\ \E r \in {register_model(factory, name, model_class)} :
          /\ factory' = r.cls
          /\ call' = [op |-> "register_model", name |-> name, model_class |-> model_class,
                      raised |-> r.raised, pre |-> factory,
                      registrations |-> call.registrations + 1,
                      accepted |-> IF r.raised THEN call.accepted
                                   ELSE call.accepted \cup {name}]
    /\ UNCHANGED <<amm, steps, mints, trig, mdl, eng, plan, live>>

NextFactory ==
    \/ \E model_name \in FactoryNames : CreateModel(model_name)
    \/ \E name \in FactoryNames, model_class \in OfferedClasses : RegisterModel(name, model_class)

SpecFactory == InitFactory /\ [][NextFactory]_vars

\* ------------------------------------------------------------ properties of the factory

\* the names the class is loaded with
BuiltInNames == {ModelFactory.models[i][1] : i \in 1..Len(ModelFactory.models)}
\* the names in the registry now
RegisteredNames == {factory.models[i][1] : i \in 1..Len(factory.models)}

\* C13: create_model(name) returns a model exactly for names currently in the
\* registry (built in, or added earlier by register_model with a
\* BaseInventoryModel subclass); for any other name it raises an error that
\* lists the registered names, and a rejected register_model call leaves the
\* registry unchanged.
C13_FactoryRegistry ==
    /\ RegisteredNames = BuiltInNames \cup call.accepted
    /\ call.op = "create_model" =>
          /\ ~call.ret.raised <=> call.model_name \in BuiltInNames \cup call.accepted
          /\ ~call.ret.raised =>
                /\ call.ret.instance_of = get_item(factory.models, call.model_name)
                /\ issubclass(call.ret.instance_of)
          /\ call.ret.raised =>
                /\ call.ret.error = "ValueError"
                /\ call.ret.available_models = keys(factory.models)
                /\ {call.ret.available_models[i] : i \in 1..Len(call.ret.available_models)}
                      = BuiltInNames \cup call.accepted
    /\ (call.op = "register_model" /\ call.raised) => factory = call.pre
    /\ (call.op = "register_model" /\ ~call.raised) =>
          get_item(factory.models, call.name) = call.model_class

\* a model registered at run time is created by its name, after a registration
\* of a class that is no model was turned down
C13_Witness ==
    /\ call.op = "create_model"
    /\ call.model_name = "MLModel"
    /\ call.registrations = 2
    /\ call.accepted = {"MLModel"}
    /\ ~call.ret.raised
    /\ Len(factory.models) = 3

\* an unknown name is turned down with the registered names listed
C13_WitnessUnknown ==
    /\ call.op = "create_model"
    /\ call.model_name = "invalid_model"
    /\ call.ret.raised
    /\ Len(call.ret.available_models) = 3

\* C14: without any runtime registration, create_model returns an
\* AvellanedaStoikovModel, a GLFTModel and a SimpleModel for the names
\* 'AvellanedaStoikovModel', 'GLFTModel' and 'SimpleModel'.
C14_AllVariantsBuiltIn ==
    (/\ call.op = "create_model"
     /\ call.registrations = 0
     /\ call.model_name \in {"AvellanedaStoikovModel", "GLFTModel", "SimpleModel"})
    => (~call.ret.raised /\ call.ret.instance_of = call.model_name)

\* the two registered variants are created without any registration
BuiltInVariantsCreated ==
    (/\ call.op = "create_model"
     /\ call.registrations = 0
     /\ call.model_name \in {"AvellanedaStoikovModel", "SimpleModel"})
    => (~call.ret.raised /\ call.ret.instance_of = call.model_name)

\* ------------------------------------------------------------ the rebalance plan on its own

\* prices of token0 in token1
PlanPrices == {Q(1, 2), N(2), N(4)}
\* balances handed to the plan
PlanBalances == {Zero, N(30), N(60), N(100)}
\* initial unit targets: not given, or given
PlanUnits == {None, Zero, N(60)}
\* initial target ratio of the value held in token0
PlanRatios == {Zero, Q(1, 2), One}

InitPlan ==
    /\ \E current_price \in PlanPrices, token0_balance, token1_balance \in PlanBalances,
          initial_target_ratio \in PlanRatios, startup_allocation, do_conversion \in BOOLEAN,
          initial_token0_units, initial_token1_units \in PlanUnits :
          plan = [planned |-> FALSE,
                  current_price |-> current_price,
                  token0_balance |-> token0_balance,
                  token1_balance |-> token1_balance,
                  initial_target_ratio |-> initial_target_ratio,
                  startup_allocation |-> startup_allocation,
                  initial_token0_units |-> initial_token0_units,
                  initial_token1_units |-> initial_token1_units,
                  do_conversion |-> do_conversion,
                  ret |-> None]
    /\ amm = AMMSimulator(3000, Q(1, 2000))
    /\ call = [op |-> "init"]
    /\ factory = ModelFactory
    /\ steps = 0
    /\ mints = 0
    /\ trig = TrigIdle
    /\ mdl = MdlIdle
    /\ eng = EngIdle
    /\ live = LiveIdle

\* plan_rebalance called on the inputs, the simple model on the default
\* configuration behind it
PlanRebalance ==
    /\ ~plan.planned
    /\ plan' = [plan EXCEPT
                  !.planned = TRUE,
                  !.ret = plan_rebalance("SimpleModel", Config(N(2), N(50), Q(1, 5), FALSE),
                                         Q(1, 50), plan.current_price,
                                         plan.token0_balance, plan.token1_balance,
                                         plan.initial_target_ratio, plan.startup_allocation,
                                         plan.initial_token0_units, plan.initial_token1_units,
                                         plan.do_conversion)]
    /\ UNCHANGED <<amm, call, steps, mints, trig, mdl, eng, factory, live>>

NextPlan == PlanRebalance

SpecPlan == InitPlan /\ [][NextPlan]_vars

\* ------------------------------------------------------------ properties of the rebalance plan

\* the value of a pair of amounts in token1 at the plan's price
PlanValue(token0, token1) == RAdd(RMul(token0, plan.current_price), token1)

\* C23: plan_rebalance's token conversion is pure accounting at the current
\* price: for every input the returned amounts are non-negative and
\* adjusted_token0 * price + adjusted_token1 equals token0 * price + token1 of
\* the inputs, and on the very first mint (startup_allocation true) the amounts
\* are returned unchanged.
C23_PureAccounting ==
    plan.planned =>
        /\ RGe(plan.ret.adj_t0, Zero)
        /\ RGe(plan.ret.adj_t1, Zero)
        /\ PlanValue(plan.ret.adj_t0, plan.ret.adj_t1)
              = PlanValue(plan.token0_balance, plan.token1_balance)
        /\ plan.startup_allocation =>
              /\ plan.ret.adj_t0 = plan.token0_balance
              /\ plan.ret.adj_t1 = plan.token1_balance

\* a later rebalance with unit targets that sold token1 for token0
C23_Witness ==
    /\ plan.planned
    /\ ~plan.startup_allocation
    /\ plan.do_conversion
    /\ plan.initial_token0_units # None
    /\ plan.initial_token1_units # None
    /\ RGt(plan.ret.adj_t0, plan.token0_balance)
    /\ RLt(plan.ret.adj_t1, plan.token1_balance)
    /\ RGt(plan.ret.adj_t1, Zero)

\* a later rebalance without unit targets that sold token0 toward the ratio
C23_WitnessRatio ==
    /\ plan.planned
    /\ ~plan.startup_allocation
    /\ plan.do_conversion
    /\ plan.initial_token0_units = None
    /\ RLt(plan.ret.adj_t0, plan.token0_balance)
    /\ RGt(plan.ret.adj_t1, plan.token1_balance)

\* the first mint: asked to convert, the amounts come back as they went in
C23_WitnessStartup ==
    /\ plan.planned
    /\ plan.startup_allocation
    /\ plan.do_conversion
    /\ plan.initial_token0_units # None
    /\ plan.initial_token1_units # None
    /\ RGt(plan.token0_balance, plan.initial_token0_units)
    /\ RGt(plan.token1_balance, Zero)
    /\ plan.ret.adj_t0 = plan.token0_balance

\* ------------------------------------------------------------ the backtest

MaxBars == 2

\* starting balances of a run
InitialBalances == {Zero, N(60)}
\* INVENTORY_MODEL of the engine: the default and the simple model
EngineModels == {"AvellanedaStoikovModel", "SimpleModel"}
\* REBALANCE_THRESHOLD of the engine: the default 0.10, and 0.4
EngineThresholds == {Q(1, 10), Q(2, 5)}

Init ==
    /\ \E name \in EngineModels, th \in EngineThresholds, detect \in Thresholds :
          eng = BacktestEngine(name, th, 3000, detect)
    /\ amm = AMMSimulator(3000, Q(1, 2000))
    /\ call = [op |-> "init"]
    /\ factory = ModelFactory
    /\ plan = PlanIdle
    /\ live = LiveIdle
    /\ steps = 0
    /\ mints = 0
    /\ trig = TrigIdle
    /\ mdl = MdlIdle

\* run_backtest entered: state initialised, a fresh simulator, no bar processed yet
RunBacktest(initial_balance_0, initial_balance_1, initial_price) ==
    /\ ~eng.running
    /\ eng.runs = 0
    /\ eng' = run_backtest_begin(eng, initial_balance_0, initial_balance_1, initial_price)
    /\ amm' = AMMSimulator(eng.fee_tier_bps, eng.TRADE_DETECTION_THRESHOLD)
    /\ call' = [op |-> "run_backtest"]
    /\ UNCHANGED <<steps, mints, trig, mdl, factory, plan, live>>

\* run_backtest's loop takes the next bar; the first bar closes at the initial price
ProcessBar(close) ==
    /\ eng.running
    /\ eng.bar < MaxBars
    /\ eng.bar = 0 => close = eng.initial_price
    /\ eng.runs = 2 =>
          /\ eng.bar < Len(eng.first_run.closes)
          /\ close = eng.first_run.closes[eng.bar + 1]
    /\ \E volatility \in calculate_volatility(
              append_price(eng.price_history, eng.bar + 1, close)) :
          \E r \in {process_bar(eng, amm, close, volatility)} :
             /\ eng' = r.self
             /\ amm' = r.amm_simulator
             /\ call' = [op |-> "bar", close |-> close,
                         traded |-> r.swap_event # NoEvent,
                         rebalanced |-> r.rebalanced, minted |-> r.minted,
                         pre |-> eng, pre_amm |-> amm,
                         after_swap |-> r.traded, amm_after_swap |-> r.swapped]
    /\ UNCHANGED <<steps, mints, trig, mdl, factory, plan, live>>

\* run_backtest returns its result; a second run ends where the data of the
\* first ended
FinishBacktest ==
    /\ eng.running
    /\ eng.bar > 0
    /\ eng.runs = 2 => eng.bar = Len(eng.first_run.closes)
    /\ \E result \in {run_result(eng)} :
          /\ eng' = [eng EXCEPT !.running = FALSE,
                                !.first_run = IF eng.runs = 1 THEN result ELSE @]
          /\ call' = [op |-> "finished", result |-> result]
    /\ UNCHANGED <<amm, steps, mints, trig, mdl, factory, plan, live>>

\* run_backtest called a second time on the same engine object, with the same
\* data and the same starting balances
RunBacktestAgain ==
    /\ ~eng.running
    /\ eng.runs = 1
    /\ eng' = run_backtest_begin(eng, eng.first_run.initial_balance_0,
                                 eng.first_run.initial_balance_1, eng.first_run.closes[1])
    /\ amm' = AMMSimulator(eng.fee_tier_bps, eng.TRADE_DETECTION_THRESHOLD)
    /\ call' = [op |-> "run_backtest"]
    /\ UNCHANGED <<steps, mints, trig, mdl, factory, plan, live>>

\* should_rebalance evaluated at the latest close; at most twice in a row
EngineShouldRebalance ==
    /\ eng.running
    /\ eng.bar > 0
    /\ ~(call.op = "should_rebalance" /\ call.prev_op = "should_rebalance")
    /\ call' = [op |-> "should_rebalance",
                ret |-> engine_should_rebalance(eng),
                prev_op |-> call.op,
                prev_minted |-> IF call.op = "bar" THEN call.minted ELSE FALSE,
                prev_ret |-> IF call.op = "should_rebalance" THEN call.ret ELSE FALSE]
    /\ UNCHANGED <<eng, amm, steps, mints, trig, mdl, factory, plan, live>>

\* save_results on the result of the bars processed so far
SaveResults ==
    /\ eng.running
    /\ eng.bar > 0
    /\ call' = [op |-> "save_results", events |-> events(eng.trades, eng.rebalances)]
    /\ UNCHANGED <<eng, amm, steps, mints, trig, mdl, factory, plan, live>>

Next ==
    \/ \E b0, b1 \in InitialBalances, p \in Prices : RunBacktest(b0, b1, p)
    \/ \E close \in Prices : ProcessBar(close)
    \/ EngineShouldRebalance
    \/ SaveResults
    \/ FinishBacktest
    \/ RunBacktestAgain

Spec == Init /\ [][Next]_vars

\* ------------------------------------------------------------ properties of the backtest

C15_EventsInProcessingOrder ==
    call.op = "save_results" =>
        /\ Len(call.events) = Len(eng.trades) + Len(eng.rebalances)
        /\ \A i, j \in 1..Len(call.events) :
              i < j =>
                /\ call.events[i].timestamp <= call.events[j].timestamp
                /\ (call.events[i].timestamp = call.events[j].timestamp
                      /\ call.events[j].type = "trade")
                     => call.events[i].type = "trade"

\* results saved after a bar that both traded and rebalanced, following the
\* bar of the initial mint: rebalance, trade, rebalance
C15_Witness ==
    /\ call.op = "save_results"
    /\ Len(call.events) = 3
    /\ call.events[1].type = "rebalance"
    /\ call.events[2].type = "trade"
    /\ call.events[3].type = "rebalance"
    /\ call.events[2].timestamp = call.events[3].timestamp
    /\ call.events[1].timestamp < call.events[2].timestamp

\* the tokens in the simulator's bands, valued in token0 at the given price
BandsValue(price) ==
    The({RAdd(b[1], RMul(b[2], RInv(price))) : b \in {get_active_positions_balances(amm)}})

\* C16: the portfolio value recorded after each bar counts every token the
\* strategy holds exactly once: while bands are active it equals the value of
\* the tokens in the AMM bands at the bar's price, deployed capital not being
\* counted both through the balance mirror and again through the position list.
C16_CountedOnce ==
    (call.op = "bar" /\ has_active_positions(amm)) =>
        eng.portfolio_values[Len(eng.portfolio_values)] = BandsValue(call.close)

\* what the engine records instead: the bands' tokens through the mirror, plus
\* the amounts booked in the position list at the last mint
MirrorPlusPositions ==
    (call.op = "bar" /\ has_active_positions(amm)) =>
        eng.portfolio_values[Len(eng.portfolio_values)]
            = RAdd(BandsValue(call.close),
                   sum_position_values(eng.positions, call.close))

\* the rebalance baseline of an engine
Baseline(self) ==
    <<self.last_rebalance_token0, self.last_rebalance_token1, self.last_rebalance_price>>

\* C21: after every rebalance that mints, the rebalance baseline
\* (last_rebalance_token0, last_rebalance_token1, last_rebalance_price) equals
\* the engine's post-mint balances and the bar's price, and on bars without a
\* rebalance the baseline is unchanged whatever swaps occur.
C21_BaselineAtMint ==
    call.op = "bar" =>
        /\ call.minted =>
              /\ Baseline(eng) = <<eng.balance_0, eng.balance_1, call.close>>
              /\ <<eng.balance_0, eng.balance_1>> = get_active_positions_balances(amm)
        /\ ~call.rebalanced => Baseline(eng) = Baseline(call.pre)

\* a bar that traded and then rebalanced: the baseline moved to the balances
\* minted at that bar's close
C21_Witness ==
    /\ call.op = "bar"
    /\ call.traded
    /\ call.minted
    /\ Baseline(eng) # Baseline(call.pre)
    /\ Baseline(eng) = <<eng.balance_0, eng.balance_1, call.close>>

\* a bar that traded without a rebalance: the mirror moved, the baseline did not
C21_WitnessNoRebalance ==
    /\ call.op = "bar"
    /\ call.traded
    /\ ~call.rebalanced
    /\ <<eng.balance_0, eng.balance_1>> # <<call.pre.balance_0, call.pre.balance_1>>
    /\ Baseline(eng) = Baseline(call.pre)

\* the engine the bar started with, its mirror set to the bands' balances after
\* the bar's swap when the bar traded
PostSwapEngine ==
    IF call.traded
    THEN The({[call.pre EXCEPT !.balance_0 = b[1], !.balance_1 = b[2]] :
              b \in {get_active_positions_balances(call.amm_after_swap)}})
    ELSE call.pre

\* C22: within each bar the swap is applied and the engine's balance mirror
\* overwritten before should_rebalance is evaluated, so the rebalance decision
\* and the mint use post-swap balances; each bar yields at most one SwapEvent and
\* at most one rebalance, and the bar's bookkeeping (bar count, trade log,
\* rebalance log, portfolio value) is complete when the bar ends.
C22_SwapBeforeDecision ==
    call.op = "bar" =>
        /\ call.rebalanced = engine_should_rebalance(PostSwapEngine)
        /\ (call.traded /\ call.minted) =>
              <<eng.balance_0, eng.balance_1>>
                  = get_active_positions_balances(call.amm_after_swap)
        /\ Len(eng.trades) = Len(call.pre.trades) + (IF call.traded THEN 1 ELSE 0)
        /\ Len(eng.rebalances) = Len(call.pre.rebalances) + (IF call.rebalanced THEN 1 ELSE 0)
        /\ eng.bar = call.pre.bar + 1
        /\ Len(eng.portfolio_values) = Len(call.pre.portfolio_values) + 1
        /\ call.traded => eng.trades[Len(eng.trades)].timestamp = eng.bar
        /\ call.rebalanced => eng.rebalances[Len(eng.rebalances)].timestamp = eng.bar

\* a bar whose swap depleted a token: not due on the balances the bar started
\* with, due on the balances after the swap, and rebalanced
C22_Witness ==
    /\ call.op = "bar"
    /\ call.traded
    /\ call.minted
    /\ ~engine_should_rebalance(call.pre)
    /\ engine_should_rebalance(PostSwapEngine)
    /\ <<eng.balance_0, eng.balance_1>> # <<call.pre.balance_0, call.pre.balance_1>>

\* the position has the band's bounds and liquidity, and the band's balance of
\* the token the band was funded with
MirrorsToken0Band(position, band) ==
    /\ band # NoBand
    /\ position.tick_lower = band.range_lower
    /\ position.tick_upper = band.range_upper
    /\ position.liquidity = band.liquidity
    /\ position.token0_amount = band.balance_token0
    /\ position.token1_amount = band.balance_token1

MirrorsToken1Band(position, band) ==
    /\ band # NoBand
    /\ position.tick_lower = band.range_lower
    /\ position.tick_upper = band.range_upper
    /\ position.liquidity = band.liquidity
    /\ position.token0_amount = band.balance_token0
    /\ position.token1_amount = band.balance_token1

\* C24: each BacktestPosition created at a rebalance mirrors a band that was
\* actually minted: its lower and upper bounds, liquidity and token amount equal
\* the range_lower, range_upper, liquidity and balance of the corresponding band
\* in the pool, and no position is recorded for a side on which no band was
\* minted.
C24_PositionsMirrorBands ==
    (call.op = "bar" /\ call.minted) =>
        \A i \in 1..Len(eng.positions) :
            /\ eng.positions[i].token_id[1] = "pos_sell" =>
                  MirrorsToken0Band(eng.positions[i], amm.pool.token0_range)
            /\ eng.positions[i].token_id[1] = "pos_buy" =>
                  MirrorsToken1Band(eng.positions[i], amm.pool.token1_range)

\* what the engine books instead: always the two positions, each with the
\* amount deployed on its side and the liquidity of the band or zero, its bounds
\* the tick-floored ones reported by mint_bands_percent; the outer bound is the
\* band's when the band exists
TwoPositionsBooked ==
    (call.op = "bar" /\ call.minted) =>
        /\ Len(eng.positions) = 2
        /\ eng.positions[1].token_id[1] = "pos_sell"
        /\ eng.positions[2].token_id[1] = "pos_buy"
        /\ IF amm.pool.token0_range # NoBand
           THEN /\ eng.positions[1].liquidity = amm.pool.token0_range.liquidity
                /\ eng.positions[1].token0_amount = amm.pool.token0_range.balance_token0
                /\ eng.positions[1].tick_upper = amm.pool.token0_range.range_upper
                /\ eng.positions[1].tick_lower
                      = tick_to_price(price_to_tick(amm.pool.token0_range.range_lower))
           ELSE /\ eng.positions[1].liquidity = Zero
                /\ eng.positions[1].token0_amount = Zero
        /\ IF amm.pool.token1_range # NoBand
           THEN /\ eng.positions[2].liquidity = amm.pool.token1_range.liquidity
                /\ eng.positions[2].token1_amount = amm.pool.token1_range.balance_token1
                /\ eng.positions[2].tick_lower = amm.pool.token1_range.range_lower
                /\ eng.positions[2].tick_upper
                      = tick_to_price(price_to_tick(amm.pool.token1_range.range_upper))
           ELSE /\ eng.positions[2].liquidity = Zero
                /\ eng.positions[2].token1_amount = Zero

\* a mint at a price off the tick grid with both sides funded: both bands
\* exist, and the sell position's lower bound is not its band's
PositionBoundOffBand ==
    /\ call.op = "bar"
    /\ call.minted
    /\ amm.pool.token0_range # NoBand
    /\ amm.pool.token1_range # NoBand
    /\ eng.positions[1].tick_lower # amm.pool.token0_range.range_lower
    /\ eng.positions[1].liquidity = amm.pool.token0_range.liquidity

\* C25: run_backtest starts from a clean state: running it twice on the same
\* engine object with the same bars and initial balances gives the second run
\* the same trades, rebalances (including which one is the initial mint),
\* baselines and drawdown as the first run.
C25_SecondRunSame ==
    (call.op = "finished" /\ eng.runs = 2) => call.result = eng.first_run

\* a rebalance record without its initial-mint flag
WithoutInitialFlag(rebalance) ==
    [k \in DOMAIN rebalance \ {"is_initial_mint"} |-> rebalance[k]]

\* what does repeat in the second run: the trades, the baselines, and the
\* rebalances apart from the flag, which a rebalance of the second run carries
\* only when the first run minted nothing
SecondRunSameFills ==
    (call.op = "finished" /\ eng.runs = 2) =>
        /\ call.result.trades = eng.first_run.trades
        /\ call.result.last_rebalance_token0 = eng.first_run.last_rebalance_token0
        /\ call.result.last_rebalance_token1 = eng.first_run.last_rebalance_token1
        /\ call.result.last_rebalance_price = eng.first_run.last_rebalance_price
        /\ Len(call.result.rebalances) = Len(eng.first_run.rebalances)
        /\ \A i \in 1..Len(call.result.rebalances) :
              /\ WithoutInitialFlag(call.result.rebalances[i])
                    = WithoutInitialFlag(eng.first_run.rebalances[i])
              /\ call.result.rebalances[i].is_initial_mint
                    = (/\ eng.first_run.rebalances[i].is_initial_mint
                       /\ \A k \in 1..Len(eng.first_run.rebalances) :
                             eng.first_run.rebalances[k].new_positions = 0)

\* a second run over two bars finished: its first rebalance is not flagged as
\* the initial mint, and its drawdown is not the first run's
SecondRunDiffers ==
    /\ call.op = "finished"
    /\ eng.runs = 2
    /\ Len(call.result.closes) = 2
    /\ eng.first_run.rebalances[1].is_initial_mint
    /\ ~call.result.rebalances[1].is_initial_mint
    /\ call.result.token0_drawdown # eng.first_run.token0_drawdown

\* the tokens held in one band, none if the band does not exist
BandHoldings(band) ==
    IF band = NoBand THEN <<Zero, Zero>> ELSE <<band.balance_token0, band.balance_token1>>

\* the tokens held across the bands of a simulator: <<token0, token1>>
BandTotals(sim) ==
    <<RAdd(BandHoldings(sim.pool.token0_range)[1], BandHoldings(sim.pool.token1_range)[1]),
      RAdd(BandHoldings(sim.pool.token0_range)[2], BandHoldings(sim.pool.token1_range)[2])>>

\* C26: a backtest rebalance neither creates nor destroys tokens: the token0
\* and token1 totals held across the AMM bands right after the mint equal the
\* totals held across the bands right before the burn (or the engine's starting
\* balances on the first mint).
C26_RebalanceConservesTokens ==
    (call.op = "bar" /\ call.minted) =>
        BandTotals(amm)
            = IF has_active_positions(call.amm_after_swap)
              THEN BandTotals(call.amm_after_swap)
              ELSE <<call.pre.initial_token0, call.pre.initial_token1>>

\* a rebalance after a fill: the band that sold holds both tokens before the
\* burn, and the new bands hold the same totals, each token in its own band
C26_Witness ==
    /\ call.op = "bar"
    /\ call.traded
    /\ call.minted
    /\ has_active_positions(call.amm_after_swap)
    /\ RGt(BandTotals(call.amm_after_swap)[1], Zero)
    /\ RGt(BandTotals(call.amm_after_swap)[2], Zero)
    /\ amm.pool.token0_range # NoBand
    /\ amm.pool.token1_range # NoBand
    /\ BandTotals(amm) = BandTotals(call.amm_after_swap)
    /\ amm.pool # call.amm_after_swap.pool

\* the first mint of a run that starts with both tokens
C26_WitnessFirstMint ==
    /\ call.op = "bar"
    /\ call.minted
    /\ ~has_active_positions(call.amm_after_swap)
    /\ RGt(call.pre.initial_token0, Zero)
    /\ RGt(call.pre.initial_token1, Zero)
    /\ BandTotals(amm) = <<call.pre.initial_token0, call.pre.initial_token1>>

C27_WitnessEmpty ==
    /\ call.op = "bar"
    /\ call.rebalanced
    /\ ~call.minted
    /\ ~has_active_positions(amm)
    /\ Len(eng.positions) = 0

\* the band, if it exists, has the simulator's remembered price as its reference
AtRememberedPrice(band) ==
    band # NoBand => band.last_spot_price = amm.last_price

C28_WitnessFill ==
    /\ call.op = "bar"
    /\ call.traded
    /\ ~call.rebalanced
    /\ amm.pool.token0_range # NoBand
    /\ amm.pool.token1_range # NoBand
    /\ amm.last_price = call.close
    /\ call.pre_amm.last_price # call.close
    /\ amm.pool.token0_range.last_spot_price = call.close
    /\ amm.pool.token1_range.last_spot_price = call.close

\* ------------------------------------------------------------ properties of the simulator

\* the last operation ran Pool.swap: directly, or inside a compute that filled
SwapStep == call.op = "swap" \/ (call.op = "compute" /\ call.ret # NoEvent)

\* old_balance - sold + bought + fee, per token, from the step's record
Expected0(old, rec) ==
    RAdd(RAdd(RSub(old.balance_token0, rec.sold_token0), rec.bought_token0), rec.fees_token0)
Expected1(old, rec) ==
    RAdd(RAdd(RSub(old.balance_token1, rec.sold_token1), rec.bought_token1), rec.fees_token1)

Conserved(old, new, rec) ==
    /\ new.balance_token0 = Expected0(old, rec)
    /\ new.balance_token1 = Expected1(old, rec)

\* C1: for every band and every Pool.swap(price), for both tokens, the balance
\* after settle equals the balance before the step minus the amount sold plus
\* the amount bought plus the fee reported for the step.
C1_Conservation ==
    SwapStep =>
        /\ call.pre.pool.token0_range # NoBand =>
              Conserved(call.pre.pool.token0_range, amm.pool.token0_range,
                        call.token0_record)
        /\ call.pre.pool.token1_range # NoBand =>
              Conserved(call.pre.pool.token1_range, amm.pool.token1_range,
                        call.token1_record)

\* a swap step in which the upper band sold token0, bought token1 and earned a fee
C1_Witness ==
    /\ SwapStep
    /\ call.pre.pool.token0_range # NoBand
    /\ RGt(call.token0_record.sold_token0, Zero)
    /\ RGt(call.token0_record.bought_token1, Zero)
    /\ RGt(call.token0_record.fees_token0, Zero)
    /\ amm.pool.token0_range.balance_token0 # call.pre.pool.token0_range.balance_token0

SameLiquidity(old, new) ==
    /\ (old = NoBand) <=> (new = NoBand)
    /\ old # NoBand => new.liquidity = old.liquidity

\* C2: a band's liquidity L is fixed at mint and unchanged by any later swap and
\* settle, however its balances drift; only a new mint produces a new L.
C2_LiquidityFixed ==
    call.op \in {"swap", "compute"} =>
        /\ SameLiquidity(call.pre.pool.token0_range, amm.pool.token0_range)
        /\ SameLiquidity(call.pre.pool.token1_range, amm.pool.token1_range)

\* a swap step after which a band holds both tokens, with its L as minted
C2_Witness ==
    /\ SwapStep
    /\ amm.pool.token0_range # NoBand
    /\ RGt(amm.pool.token0_range.liquidity, Zero)
    /\ RGt(amm.pool.token0_range.balance_token1, Zero)
    /\ amm.pool.token0_range.balance_token0 # call.pre.pool.token0_range.balance_token0

\* C3 as stated: after compute returns None the remembered price is the same
\* as before the call; after it returns a SwapEvent it equals the bar's close.
C3_AsStated ==
    call.op = "compute" =>
        /\ call.ret = NoEvent => amm.last_price = call.pre.last_price
        /\ call.ret # NoEvent => amm.last_price = call.close

\* C3 amended: after compute returns None on a bar where a price was remembered
\* and a band is active, the remembered price is unchanged; when it returns None
\* because no price was remembered yet or no band is active, the remembered
\* price becomes the bar's close; after a SwapEvent it equals the bar's close.
C3_ReferencePrice ==
    call.op = "compute" =>
        /\ (call.ret = NoEvent /\ call.pre.last_price # None
              /\ has_active_positions(call.pre))
             => amm.last_price = call.pre.last_price
        /\ (call.ret = NoEvent /\ (call.pre.last_price = None
              \/ ~has_active_positions(call.pre)))
             => amm.last_price = call.close
        /\ call.ret # NoEvent => amm.last_price = call.close

\* a bar below the threshold with a band active: None, and the old price is kept
C3_Witness ==
    /\ call.op = "compute"
    /\ call.ret = NoEvent
    /\ call.pre.last_price # None
    /\ has_active_positions(call.pre)
    /\ call.close # call.pre.last_price
    /\ amm.last_price = call.pre.last_price

\* the band's liquidity never lets a sweep of the whole band sell more than it holds
SweepWithinDeposit0(band) ==
    RLe(token0_sold(band.range_upper, band.range_lower, band.liquidity),
        band.balance_token0)
SweepWithinDeposit1(band) ==
    RLe(token1_sold(band.range_lower, band.range_upper, band.liquidity),
        band.balance_token1)

\* C8: for every band minted from a positive single-sided deposit over a range
\* with range_lower < range_upper, the amount of the deposited token a sweep of
\* the whole band would sell, computed from its liquidity, is at most the deposit.
C8_LiquidityCapped ==
    call.op = "mint" =>
        /\ (amm.pool.token0_range # NoBand
              /\ RLt(amm.pool.token0_range.range_lower, amm.pool.token0_range.range_upper))
             => SweepWithinDeposit0(amm.pool.token0_range)
        /\ (amm.pool.token1_range # NoBand
              /\ RLt(amm.pool.token1_range.range_lower, amm.pool.token1_range.range_upper))
             => SweepWithinDeposit1(amm.pool.token1_range)

\* a mint of both bands over proper ranges, each with positive liquidity
C8_Witness ==
    /\ call.op = "mint"
    /\ amm.pool.token0_range # NoBand
    /\ amm.pool.token1_range # NoBand
    /\ RLt(amm.pool.token0_range.range_lower, amm.pool.token0_range.range_upper)
    /\ RLt(amm.pool.token1_range.range_lower, amm.pool.token1_range.range_upper)
    /\ RGt(amm.pool.token0_range.liquidity, Zero)
    /\ RGt(amm.pool.token1_range.liquidity, Zero)

\* |close - last_price| / last_price of the bar just computed
MovePct == RDiv(RAbs(RSub(call.close, call.pre.last_price)), call.pre.last_price)

\* C9: with a remembered price and at least one active band, compute executes
\* the swap and returns a SwapEvent whenever the move is at or above
\* TRADE_DETECTION_THRESHOLD (a move equal to the threshold included), and
\* returns None only when the move is below the threshold.
C9_AtOrAboveThreshold ==
    (/\ call.op = "compute"
     /\ call.pre.last_price # None
     /\ has_active_positions(call.pre))
    => ((call.ret # NoEvent) <=> RGe(MovePct, call.pre.trade_detection_threshold))

\* C10: after mint_position the pool holds an upper (token0) band exactly when
\* token0_amt > 0 and a lower (token1) band exactly when token1_amt > 0, over
\* [price, upper] and [lower, price]; no band of an earlier mint survives.
C10_MintReplacesBands ==
    call.op = "mint" =>
        /\ (amm.pool.token0_range # NoBand) <=> RGt(call.token0_amount, Zero)
        /\ (amm.pool.token1_range # NoBand) <=> RGt(call.token1_amount, Zero)
        /\ amm.pool.token0_range # NoBand =>
              /\ amm.pool.token0_range.range_lower = call.current_price
              /\ amm.pool.token0_range.range_upper = call.tick_upper
              /\ amm.pool.token0_range.balance_token0 = call.token0_amount
              /\ amm.pool.token0_range.balance_token1 = Zero
        /\ amm.pool.token1_range # NoBand =>
              /\ amm.pool.token1_range.range_lower = call.tick_lower
              /\ amm.pool.token1_range.range_upper = call.current_price
              /\ amm.pool.token1_range.balance_token1 = call.token1_amount
              /\ amm.pool.token1_range.balance_token0 = Zero

\* a second mint, funding only token1, over a pool that held both bands
C10_Witness ==
    /\ call.op = "mint"
    /\ mints = 2
    /\ call.had_token0_range
    /\ call.had_token1_range
    /\ call.token0_amount = Zero
    /\ RGt(call.token1_amount, Zero)
    /\ amm.pool.token0_range = NoBand
    /\ amm.pool.token1_range # NoBand

\* a band over a proper range that holds liquidity
ProperBand(band) ==
    /\ RLt(band.range_lower, band.range_upper)
    /\ RGt(band.liquidity, Zero)

\* C11: for every current price > 0 and every pair of widths a model can return,
\* mint_bands_percent mints only bands whose range_upper is strictly greater
\* than range_lower (at least one tick apart); a positive deposit never ends up
\* in a zero-width or zero-liquidity band.
C11_BandsSeparated ==
    call.op = "mint_bands" =>
        /\ RLt(call.ret[4][1], call.ret[4][2])
        /\ RLt(call.ret[5][1], call.ret[5][2])
        /\ RGt(call.token0_amount, Zero) =>
              /\ amm.pool.token0_range # NoBand
              /\ ProperBand(amm.pool.token0_range)
              /\ amm.pool.token0_range.balance_token0 = call.token0_amount
        /\ RGt(call.token1_amount, Zero) =>
              /\ amm.pool.token1_range # NoBand
              /\ ProperBand(amm.pool.token1_range)
              /\ amm.pool.token1_range.balance_token1 = call.token1_amount

\* both sides funded at a price on a tick with the narrowest widths: the raw
\* upper edge and the raw lower-band upper edge both align to the price's own tick
C11_Witness ==
    /\ call.op = "mint_bands"
    /\ call.current_price = N(4)
    /\ call.range_a_pct = Q(1, 50)
    /\ call.range_b_pct = Q(1, 50)
    /\ RGt(call.token0_amount, Zero)
    /\ RGt(call.token1_amount, Zero)
    /\ price_to_tick(RMul(call.current_price, RAdd(One, call.range_a_pct)))
          = price_to_tick(call.current_price)
    /\ ProperBand(amm.pool.token0_range)
    /\ ProperBand(amm.pool.token1_range)

\* the price handed to Pool.swap in the last operation
StepPrice == IF call.op = "swap" THEN call.price ELSE call.close

\* the band's old and new price clipped into its range
ClippedFrom(band) == Clip(band.last_spot_price, band.range_lower, band.range_upper)
ClippedTo(band, price) == Clip(price, band.range_lower, band.range_upper)

\* the uncapped deltas of the step: L * (1/s1 - 1/s0) and L * (s1 - s0)
Delta0(band, price) ==
    RMul(band.liquidity, RSub(RInv(RSqrt(ClippedTo(band, price))), RInv(RSqrt(ClippedFrom(band)))))
Delta1(band, price) ==
    RMul(band.liquidity, RSub(RSqrt(ClippedTo(band, price)), RSqrt(ClippedFrom(band))))

\* sold within the balance held before the step, bought scaled by sold over
\* the uncapped amount, balances not negative afterwards
CappedFill(old, new, rec, price) ==
    /\ RLe(rec.sold_token0, old.balance_token0)
    /\ RLe(rec.sold_token1, old.balance_token1)
    /\ RGt(rec.sold_token0, Zero) =>
          /\ rec.sold_token0 = RMin(RNeg(Delta0(old, price)), old.balance_token0)
          /\ RMul(rec.bought_token1, RNeg(Delta0(old, price)))
                = RMul(Delta1(old, price), rec.sold_token0)
    /\ RGt(rec.sold_token1, Zero) =>
          /\ rec.sold_token1 = RMin(RNeg(Delta1(old, price)), old.balance_token1)
          /\ RMul(rec.bought_token0, RNeg(Delta1(old, price)))
                = RMul(Delta0(old, price), rec.sold_token1)
    /\ RGe(new.balance_token0, Zero)
    /\ RGe(new.balance_token1, Zero)

\* C17: in a swap step the amount of a token a band sells never exceeds the
\* balance of that token the band holds before the step, and the amount bought
\* is scaled by the ratio of the amount sold to the uncapped amount;
\* consequently no band balance is negative after any sequence of swaps.
C17_SoldWithinBalance ==
    SwapStep =>
        /\ call.pre.pool.token0_range # NoBand =>
              CappedFill(call.pre.pool.token0_range, amm.pool.token0_range,
                         call.token0_record, StepPrice)
        /\ call.pre.pool.token1_range # NoBand =>
              CappedFill(call.pre.pool.token1_range, amm.pool.token1_range,
                         call.token1_record, StepPrice)

\* a step in which the upper band sells the whole of its token0, fees of an
\* earlier round trip aside: the amount sold reaches the cap
C17_Witness ==
    /\ SwapStep
    /\ call.pre.pool.token0_range # NoBand
    /\ RGt(call.token0_record.sold_token0, Zero)
    /\ call.token0_record.sold_token0 = call.pre.pool.token0_range.balance_token0
    /\ RGt(call.token0_record.bought_token1, Zero)
    /\ StepPrice = call.pre.pool.token0_range.range_upper

\* a step outside the band changes nothing but the reference price
OutsideIsNoOp(old, new, rec, price) ==
    /\ new.last_spot_price = price
    /\ ClippedFrom(old) = ClippedTo(old, price) =>
          /\ new.balance_token0 = old.balance_token0
          /\ new.balance_token1 = old.balance_token1
          /\ new.liquidity = old.liquidity
          /\ rec.sold_token0 = Zero /\ rec.bought_token0 = Zero
          /\ rec.sold_token1 = Zero /\ rec.bought_token1 = Zero
          /\ rec.fees_token0 = Zero /\ rec.fees_token1 = Zero

\* C18: a swap step whose old and new price both lie outside the band on the
\* same side (the clipped prices coincide) leaves the band's balances,
\* liquidity and reported sold/bought/fee amounts at zero change, and still
\* sets the band's last_spot_price to the new price; after every swap call,
\* filled or not, last_spot_price equals the price passed in.
C18_OutsideStepAdvances ==
    SwapStep =>
        /\ call.pre.pool.token0_range # NoBand =>
              OutsideIsNoOp(call.pre.pool.token0_range, amm.pool.token0_range,
                            call.token0_record, StepPrice)
        /\ call.pre.pool.token1_range # NoBand =>
              OutsideIsNoOp(call.pre.pool.token1_range, amm.pool.token1_range,
                            call.token1_record, StepPrice)

\* the lower band, funded, stepped from its upper edge to a price above it:
\* nothing moves, the reference price follows
C18_Witness ==
    /\ SwapStep
    /\ call.pre.pool.token1_range # NoBand
    /\ RGt(call.pre.pool.token1_range.balance_token1, Zero)
    /\ RGt(StepPrice, call.pre.pool.token1_range.range_upper)
    /\ call.pre.pool.token1_range.last_spot_price # StepPrice
    /\ amm.pool.token1_range.last_spot_price = StepPrice
    /\ amm.pool.token1_range.balance_token1 = call.pre.pool.token1_range.balance_token1

\* no band sold anything in the bar just computed
NoBandFilled ==
    /\ call.token0_record.sold_token0 = Zero /\ call.token0_record.sold_token1 = Zero
    /\ call.token1_record.sold_token0 = Zero /\ call.token1_record.sold_token1 = Zero

\* C19: with a price remembered and a band active, a bar in which no band
\* fills, including one whose price move crosses the threshold while the price
\* is outside both bands, leaves the remembered price unchanged and produces no
\* SwapEvent.
C19_OnlyFillsAdvance ==
    (/\ call.op = "compute"
     /\ call.pre.last_price # None
     /\ has_active_positions(call.pre)
     /\ NoBandFilled)
    => (amm.last_price = call.pre.last_price /\ call.ret = NoEvent)

\* a bar that closes above a funded lower band of positive width, the move past
\* the threshold: nothing is sold, yet a SwapEvent is returned and the
\* remembered price follows the close
OutsideBandsEvent ==
    /\ call.op = "compute"
    /\ call.pre.last_price # None
    /\ call.pre.pool.token0_range = NoBand
    /\ call.pre.pool.token1_range # NoBand
    /\ RLt(call.pre.pool.token1_range.range_lower, call.pre.pool.token1_range.range_upper)
    /\ RGt(call.pre.pool.token1_range.balance_token1, Zero)
    /\ RGe(call.pre.last_price, call.pre.pool.token1_range.range_upper)
    /\ RGt(call.close, call.pre.last_price)
    /\ NoBandFilled
    /\ call.ret # NoEvent
    /\ amm.last_price = call.close

\* a bar whose move stays within the threshold fills nothing, keeps the
\* remembered price and produces no SwapEvent
BelowThresholdKeepsPrice ==
    (/\ call.op = "compute"
     /\ call.pre.last_price # None
     /\ has_active_positions(call.pre)
     /\ ~significant_move(MovePct, call.pre.trade_detection_threshold))
    => (NoBandFilled /\ amm.last_price = call.pre.last_price /\ call.ret = NoEvent)

\* fee = sold * fee_tier in the sold token, credited to the band at settle,
\* accumulators cleared for the next step
FeeOnSold(old, new, rec) ==
    /\ rec.fees_token0 = RMul(rec.sold_token0, old.fee_tier)
    /\ rec.fees_token1 = RMul(rec.sold_token1, old.fee_tier)
    /\ RGt(rec.sold_token0, Zero) =>
          /\ rec.fees_token1 = Zero
          /\ new.balance_token0
                = RAdd(RSub(old.balance_token0, rec.sold_token0), rec.fees_token0)
    /\ RGt(rec.sold_token1, Zero) =>
          /\ rec.fees_token0 = Zero
          /\ new.balance_token1
                = RAdd(RSub(old.balance_token1, rec.sold_token1), rec.fees_token1)
    /\ new.fees_token0 = Zero
    /\ new.fees_token1 = Zero

\* C20: on an upward fill the band's fee is sold_token0 times fee_rate in token0
\* and zero in token1, symmetrically on a downward fill, and the fee is credited
\* to that same band's balance of the sold token at settle (post-settle
\* balance_token0 = pre-step balance - sold_token0 + fee_token0); fees of one
\* step are not carried into the record of a later step.
C20_FeeOnSoldToken ==
    SwapStep =>
        /\ call.pre.pool.token0_range # NoBand =>
              FeeOnSold(call.pre.pool.token0_range, amm.pool.token0_range,
                        call.token0_record)
        /\ call.pre.pool.token1_range # NoBand =>
              FeeOnSold(call.pre.pool.token1_range, amm.pool.token1_range,
                        call.token1_record)

\* a downward fill of the lower band: the fee is in token1 and stays in the band
C20_Witness ==
    /\ SwapStep
    /\ call.pre.pool.token1_range # NoBand
    /\ RGt(call.token1_record.sold_token1, Zero)
    /\ call.token1_record.fees_token1
          = RMul(call.token1_record.sold_token1, call.pre.pool.token1_range.fee_tier)
    /\ RGt(call.token1_record.fees_token1, Zero)
    /\ call.token1_record.fees_token0 = Zero
    /\ RGt(amm.pool.token1_range.balance_token1, Zero)

\* a step that fills nothing right after a step that earned a fee: the record
\* of the later step shows no fee
C20_WitnessNotCarried ==
    /\ SwapStep
    /\ steps = 3
    /\ call.pre.pool.token0_range # NoBand
    /\ RGt(call.pre.pool.token0_range.balance_token1, Zero)
    /\ call.token0_record.sold_token0 = Zero
    /\ call.token0_record.sold_token1 = Zero
    /\ call.token0_record.fees_token0 = Zero

\* ------------------------------------------------------------ the live rebalancer in its loop

\* spot prices read from the pool: 0 when the read fails
LiveSpotPrices == {0, 2000}
\* what the inventory model answers to should_rebalance
InventoryAnswers == {"balanced", "imbalanced", "error"}
\* the NFTs the wallet holds when the rebalancer starts: none, or two
StartingChains == {{}, {1, 2}}

\* the rebalancer constructed, the wallet's positions on chain
InitLive ==
    /\ \E chain \in StartingChains :
          live = [constructed |-> TRUE,
                  initialized |-> FALSE,
                  self |-> AutomatedRebalancer,
                  chain |-> chain,
                  minted |-> Cardinality(chain),
                  cycles |-> 0]
    /\ amm = AMMSimulator(3000, Q(1, 2000))
    /\ call = [op |-> "init"]
    /\ factory = ModelFactory
    /\ steps = 0
    /\ mints = 0
    /\ trig = TrigIdle
    /\ mdl = MdlIdle
    /\ eng = EngIdle
    /\ plan = PlanIdle

\* start(): initialize_positions loads the positions from the chain
InitializePositions ==
    /\ live.constructed
    /\ ~live.initialized
    /\ \E listing \in BOOLEAN, answers \in SUBSET live.chain :
          /\ live' = [live EXCEPT
                        !.initialized = TRUE,
                        !.self = initialize_positions(@, live.chain, listing, answers)]
          /\ call' = [op |-> "initialize_positions", pre |-> live]
    /\ UNCHANGED <<amm, steps, mints, trig, mdl, eng, factory, plan>>

\* one iteration of monitoring_loop: the spot price is read and remembered,
\* the positions are taken from memory, and a rebalance runs when
\* should_rebalance asks for it
MonitoringCycle ==
    /\ live.constructed
    /\ live.initialized
    /\ live.cycles < MaxCycles
    /\ \E seen_price, spot_price \in LiveSpotPrices, inventory \in InventoryAnswers,
          burns \in SUBSET live.chain, listing \in BOOLEAN, answers \in SUBSET live.chain,
          pool, a_ok, b_ok \in BOOLEAN :
          LET observed == [live.self EXCEPT !.last_spot_price = seen_price]
              positions == get_position_ranges(observed)
              triggered == live_should_rebalance(positions, inventory)
              env == [burns |-> burns, listing |-> listing, answers |-> answers,
                      spot_price |-> spot_price, pool |-> pool, a_ok |-> a_ok, b_ok |-> b_ok]
          IN IF triggered
             THEN \E r \in {live_rebalance_positions(observed, live.chain, live.minted, env)} :
                     /\ live' = [live EXCEPT
                                   !.self = r.self,
                                   !.chain = r.chain,
                                   !.minted = r.minted,
                                   !.cycles = @ + 1]
                     /\ call' = [op |-> "monitoring_cycle", pre |-> live,
                                 positions |-> positions, triggered |-> TRUE,
                                 verified |-> r.verified, created |-> r.created,
                                 ret |-> r.ret]
             ELSE /\ live' = [live EXCEPT !.self = observed, !.cycles = @ + 1]
                  /\ call' = [op |-> "monitoring_cycle", pre |-> live,
                              positions |-> positions, triggered |-> FALSE,
                              verified |-> FALSE, created |-> {},
                              ret |-> None]
    /\ UNCHANGED <<amm, steps, mints, trig, mdl, eng, factory, plan>>

NextLive ==
    \/ InitializePositions
    \/ MonitoringCycle

SpecLive == InitLive /\ [][NextLive]_vars

\* ------------------------------------------------------------ properties of the live rebalancer

\* the last operation was a monitoring cycle that ran a rebalance
Rebalanced == call.op = "monitoring_cycle" /\ call.triggered

C29_WitnessCreated ==
    /\ Rebalanced
    /\ call.verified
    /\ Len(call.pre.self.current_positions) = 2
    /\ call.pre.chain \cap live.chain = {}
    /\ Cardinality(call.created) = 2

\* the verification answers from what the node can read: positions were
\* created while a position that was not burned is still on chain
CreatedBesideUnburned ==
    /\ Rebalanced
    /\ call.created # {}
    /\ call.pre.chain \cap live.chain # {}

\* the rebalance created both positions and returned no error
CreatedBoth ==
    /\ Rebalanced
    /\ "error" \notin DOMAIN call.ret
    /\ call.ret.position_a.success
    /\ call.ret.position_b.success

\* C30: after a live rebalance that created the two new positions without
\* error, the list of positions in memory is not empty
C30_CreatedPositionsRemembered ==
    CreatedBoth => Len(live.self.current_positions) > 0

\* whenever the verification passes, the list in memory is left empty, whether
\* or not positions were created
EmptyAfterVerifiedBurn ==
    (Rebalanced /\ call.verified) => live.self.current_positions = <<>>

\* a cycle that finds the list in memory empty always runs a rebalance
NoPositionsTriggers ==
    (call.op = "monitoring_cycle" /\ Len(call.positions) = 0) => call.triggered

\* the cycle after a creation: the list is empty, a rebalance runs again, and
\* its verification meets the positions just created
RebalancedAgainAfterCreation ==
    /\ Rebalanced
    /\ call.pre.cycles = 1
    /\ call.pre.minted = 4
    /\ call.pre.chain = {3, 4}
    /\ Len(call.positions) = 0
    /\ ~call.verified
    /\ live.chain = {3, 4}

====
